---- MODULE Spec2Model ----
(***************************************************************************)
(* Model of the starry-signal crate: the signal set (src/ctypes.rs), the   *)
(* pending store (src/lib.rs) and the process- and thread-level signal     *)
(* managers (src/api/process.rs, src/api/thread.rs).                       *)
(*                                                                         *)
(* A SignalSet is modelled as the set of signal numbers whose bit is set:  *)
(* signal s (1..64) is bit s-1 of the 64 bits bits[0] (signals 1..32) and  *)
(* bits[1] (signals 33..64).  An Option<T> is a sequence: <<>> is None and *)
(* <<x>> is Some(x).  Every operation is an operator from the state it     *)
(* reads (and its arguments) to a record of the state it writes and the    *)
(* value it returns; the actions apply these operators to the variables    *)
(* and record the call and its result in ret.                              *)
(***************************************************************************)
EXTENDS Integers, Sequences, FiniteSets, TLC

VARIABLES
    ps,        \* SpecPending: a stand-alone PendingSignals store
    ret,       \* the last call: [op, tid, arg, res]
    tick,      \* flips at every call, so that no call is a stuttering step
    actions,                    \* ProcessSignalManager.actions: signo -> SignalAction
    proc_pending,               \* ProcessSignalManager.pending
    proc_possibly_has_signal,   \* ProcessSignalManager.possibly_has_signal
    children,                   \* ProcessSignalManager.children: the registered tids, in order
    live,                       \* the thread managers that exist (their Weak upgrades)
    thr_pending,                \* ThreadSignalManager.pending, per tid
    thr_blocked,                \* ThreadSignalManager.blocked, per tid
    thr_possibly_has_signal,    \* ThreadSignalManager.possibly_has_signal, per tid
    stuck,                      \* the tids whose call spins forever on the action-table lock
    kept,                       \* history: <<signo, tid>>, signo was sent to the process while
                                \* every registered thread, tid among them, blocked it
    tf,                         \* the thread's TrapFrame: [ip, sp]
    umem,                       \* user memory: address -> what handle_signal wrote there
    arch,                       \* the target architecture of the build
    handling,                   \* history: the handler deliveries not yet restored, newest last
    hidden,                     \* history: <<signo, tid, b, h>>, signo was sent to thread tid
                                \* while tid blocked it (b) or ran its handler (h), and tid has
                                \* since only been sent signals, checked for signals, restored
                                \* and had its blocked mask changed
    smp,                        \* the build has several CPUs: a SpinNoIrq really spins
    thr_stack,                  \* ThreadSignalManager.stack, per tid
    signal_events,              \* ProcessSignalManager.signal_events: the set of flags set
    last_stop_signal,           \* ProcessSignalManager.last_stop_signal
    due,                        \* history of the job-control events: the stop signal set
                                \* and not yet consumed (stop), and whether a continue
                                \* was set and not yet consumed (cont)
    job_pc,                     \* per kernel context: where its call of a job-control hook
                                \* stands, with the signal it sets or the flags it loaded
    write_locks                 \* the manager locks the calling context held when the last
                                \* call wrote a signal frame to user memory; None when the
                                \* last call wrote none

psvars == <<ps, ret, tick>>
procvars == <<actions, proc_pending, proc_possibly_has_signal, children, live>>
thrvars == <<thr_pending, thr_blocked, thr_possibly_has_signal, stuck>>
uservars == <<tf, umem, arch, handling>>
jobvars == <<signal_events, last_stop_signal, due>>
restvars == <<smp, thr_stack, jobvars, job_pc>>
mgrvars == <<procvars, thrvars, uservars, kept, hidden, restvars, write_locks>>
vars == <<ps, ret, tick, mgrvars>>

\* ---------------------------------------------------------------- bounds

MaxCode == 2        \* payloads (SignalInfo.code) are 1..MaxCode
MaxQueue == 2       \* a real-time queue is filled up to this length
MaxDepth == 2       \* handlers are nested up to this depth

Codes == 1..MaxCode

\* ---------------------------------------------------------------- signal numbers

SIGINT == 2
SIGQUIT == 3
SIGILL == 4
SIGKILL == 9
SIGSEGV == 11
SIGTERM == 15
SIGCHLD == 17
SIGCONT == 18
SIGSTOP == 19
SIGTSTP == 20
SIGTTIN == 21
SIGTTOU == 22
SIGRTMIN == 32

None == <<>>
Some(x) == <<x>>

SignalInfo(signo, code) == [signo |-> signo, code |-> code]

\* ---------------------------------------------------------------- SignalSet (src/ctypes.rs)

SetMin(S) == CHOOSE x \in S : \A y \in S : x <= y

AllBits == 1..64
Bits0 == 1..32

EmptySet == {}

\* SignalSet::add: only signals 1..31 have a bit; true iff the bit was newly set.
SignalSet_add(set, signal) ==
    IF ~(signal \in 1..31)
    THEN [set |-> set, ret |-> FALSE]
    ELSE IF signal \in set
         THEN [set |-> set, ret |-> FALSE]
         ELSE [set |-> set \cup {signal}, ret |-> TRUE]

\* SignalSet::remove
SignalSet_remove(set, signal) ==
    IF ~(signal \in 1..31)
    THEN [set |-> set, ret |-> FALSE]
    ELSE IF signal \notin set
         THEN [set |-> set, ret |-> FALSE]
         ELSE [set |-> set \ {signal}, ret |-> TRUE]

\* SignalSet::has
SignalSet_has(set, signal) == signal \in 1..31 /\ signal \in set

\* impl Not for SignalSet: both words are complemented.
SignalSet_not(set) == AllBits \ set

\* impl BitOr for SignalSet
SignalSet_bitor(a, b) == a \cup b

\* SignalSet::dequeue: the lowest set bit of bits[0] & mask.bits[0];
\* trailing_zeros is the bit index, the signal is the index plus one.
SignalSet_dequeue_highest(set, mask) ==
    LET bits == (set \cap Bits0) \cap (mask \cap Bits0)
    IN  IF bits = {}
        THEN [set |-> set, ret |-> None]
        ELSE LET signal == (CHOOSE x \in bits : \A y \in bits : x >= y) - 1
             IN  [set |-> set \ {signal + 1}, ret |-> Some(signal + 1)]

SignalSet_dequeue(set, mask) ==
    LET bits == (set \cap Bits0) \cap (mask \cap Bits0)
    IN  IF bits = {}
        THEN [set |-> set, ret |-> None]
        ELSE LET signal == SetMin(bits) - 1
             IN  [set |-> set \ {signal + 1}, ret |-> Some(signal + 1)]

\* ---------------------------------------------------------------- PendingSignals (src/lib.rs)

\* PendingSignals::new: empty set, 32 empty slots, 33 empty queues.
PendingSignals_new ==
    [set |-> EmptySet,
     infos |-> [i \in 0..31 |-> None],
     info_queues |-> [i \in 0..32 |-> <<>>]]

\* PendingSignals::send_signal (called put_signal by the managers).
put_signal_last_wins(p, sig) ==
    LET signo == sig.signo
        a == SignalSet_add(p.set, signo)
    IN  IF signo < 32
        THEN [ps |-> [p EXCEPT !.set = a.set, !.infos[signo] = Some(sig)], ret |-> a.ret]
        ELSE [ps |-> [p EXCEPT !.set = a.set,
                               !.info_queues[signo - 32] = Append(@, sig)],
              ret |-> TRUE]

put_signal_rt_added(p, sig) ==
    LET signo == sig.signo
        a == SignalSet_add(p.set, signo)
    IN  IF signo < 32
        THEN IF ~a.ret
             THEN [ps |-> [p EXCEPT !.set = a.set], ret |-> FALSE]
             ELSE [ps |-> [p EXCEPT !.set = a.set, !.infos[signo] = Some(sig)],
                   ret |-> TRUE]
        ELSE [ps |-> [p EXCEPT !.set = a.set,
                               !.info_queues[signo - 32] = Append(@, sig)],
              ret |-> Len(p.info_queues[signo - 32]) = 0]

put_signal(p, sig) ==
    LET signo == sig.signo
        a == SignalSet_add(p.set, signo)
    IN  IF signo < 32
        THEN IF ~a.ret
             THEN [ps |-> [p EXCEPT !.set = a.set], ret |-> FALSE]
             ELSE [ps |-> [p EXCEPT !.set = a.set, !.infos[signo] = Some(sig)],
                   ret |-> TRUE]
        ELSE [ps |-> [p EXCEPT !.set = a.set,
                               !.info_queues[signo - 32] = Append(@, sig)],
              ret |-> TRUE]

\* PendingSignals::dequeue_signal
\* d is what pending.dequeue(mask) returned; the and_then closure runs on Some.
dequeue_signal_and_then(p, d) ==
    IF d.ret = None
    THEN [ps |-> [p EXCEPT !.set = d.set], ret |-> None]
    ELSE LET signo == d.ret[1]
         IN  IF signo < 32
             THEN [ps |-> [p EXCEPT !.set = d.set, !.infos[signo] = None],
                   ret |-> p.infos[signo]]
             ELSE LET queue == p.info_queues[signo - 32]
                      result == IF queue = <<>> THEN None ELSE Some(Head(queue))
                      rest == IF queue = <<>> THEN <<>> ELSE Tail(queue)
                      readd == IF rest # <<>>
                               THEN SignalSet_add(d.set, signo).set
                               ELSE d.set
                  IN  [ps |-> [p EXCEPT !.set = readd,
                                        !.info_queues[signo - 32] = rest],
                       ret |-> result]

dequeue_signal(p, mask) ==
    dequeue_signal_and_then(p, SignalSet_dequeue(p.set, mask))

\* remove_signal: discards every pending instance of signo and clears its bit.
remove_signal(p, signo) ==
    LET r == SignalSet_remove(p.set, signo)
    IN  IF signo < 32
        THEN [p EXCEPT !.set = r.set, !.infos[signo] = None]
        ELSE [p EXCEPT !.set = r.set, !.info_queues[signo - 32] = <<>>]

\* remove_signal for each signo of a set, smallest first.
RECURSIVE remove_signals(_, _)
remove_signals(p, sigs) ==
    IF sigs = {}
    THEN p
    ELSE remove_signals(remove_signal(p, SetMin(sigs)), sigs \ {SetMin(sigs)})

\* has_signal mirrors set.contains
has_signal(p, signo) == SignalSet_has(p.set, signo)

\* ---------------------------------------------------------------- default actions (src/lib.rs)

\* DEFAULT_ACTIONS[signo], signo 0..31 (element signo + 1 of the tuple).
DEFAULT_ACTIONS ==
    <<"Ignore",     \* Unspecified
      "Terminate",  \* SIGHUP
      "Terminate",  \* SIGINT
      "CoreDump",   \* SIGQUIT
      "CoreDump",   \* SIGILL
      "CoreDump",   \* SIGTRAP
      "CoreDump",   \* SIGABRT
      "CoreDump",   \* SIGBUS
      "CoreDump",   \* SIGFPE
      "Terminate",  \* SIGKILL
      "Terminate",  \* SIGUSR1
      "CoreDump",   \* SIGSEGV
      "Terminate",  \* SIGUSR2
      "Terminate",  \* SIGPIPE
      "Terminate",  \* SIGALRM
      "Terminate",  \* SIGTERM
      "Terminate",  \* SIGSTKFLT
      "Ignore",     \* SIGCHLD
      "Continue",   \* SIGCONT
      "Stop",       \* SIGSTOP
      "Stop",       \* SIGTSTP
      "Stop",       \* SIGTTIN
      "Stop",       \* SIGTTOU
      "Ignore",     \* SIGURG
      "CoreDump",   \* SIGXCPU
      "CoreDump",   \* SIGXFSZ
      "Terminate",  \* SIGVTALRM
      "Terminate",  \* SIGPROF
      "Ignore",     \* SIGWINCH
      "Terminate",  \* SIGIO
      "Terminate",  \* SIGPWR
      "CoreDump">>  \* SIGSYS

\* Signo::default_action: the table entry of a standard signo; a real-time
\* signo terminates.
default_action(signo) ==
    IF signo < 32 THEN DEFAULT_ACTIONS[signo + 1] ELSE "Terminate"

\* Signo::has_side_effect: SIGCONT and SIGKILL.
has_side_effect(signo) == signo \in {SIGCONT, SIGKILL}

\* SignalSet::is_empty
SignalSet_is_empty(set) == set = {}

\* ---------------------------------------------------------------- SignalAction (src/ctypes.rs)

\* SignalAction: disposition, mask and flags (a set of flag names).
SignalAction(disposition, mask, flags) ==
    [disposition |-> disposition, mask |-> mask, flags |-> flags]

\* SignalAction::default
SignalAction_default == SignalAction("Default", EmptySet, {})

\* All signal numbers the model sends; the action table has an entry for each.
Signos == {SIGINT, SIGKILL, SIGTERM, SIGCHLD, SIGCONT, SIGSTOP, SIGTSTP, SIGRTMIN}

\* SignalActions::default
SignalActions_default == [s \in Signos |-> SignalAction_default]

\* ---------------------------------------------------------------- ProcessSignalManager (src/api/process.rs)

\* TID of tests/common/mod.rs and the tid of tests/api_process.rs.
Tids == {7, 9}

\* The state one thread-side operation reads and writes: the thread's own
\* store, hint and blocked mask, and the process's store, hint and actions.
\* stuck: the call spins forever on a lock its own context holds.
ThreadView(t) ==
    [tp |-> thr_pending[t],
     th |-> thr_possibly_has_signal[t],
     blocked |-> thr_blocked[t],
     pp |-> proc_pending,
     ph |-> proc_possibly_has_signal,
     actions |-> actions,
     tf |-> tf,
     mem |-> umem,
     arch |-> arch,
     smp |-> smp,
     stack |-> thr_stack[t],
     stuck |-> FALSE,
     wlocks |-> <<>>]

\* ProcessSignalManager::signal_ignored
signal_ignored_no_side_effect(acts, signo) ==
    CASE acts[signo].disposition = "Ignore" -> TRUE
      [] acts[signo].disposition = "Default" -> default_action(signo) = "Ignore"
      [] OTHER -> FALSE

signal_ignored(acts, signo) ==
    IF has_side_effect(signo)
    THEN FALSE
    ELSE CASE acts[signo].disposition = "Ignore" -> TRUE
           [] acts[signo].disposition = "Default" -> default_action(signo) = "Ignore"
           [] OTHER -> FALSE

\* ThreadSignalManager::signal_blocked
signal_blocked(blocked, signo) == SignalSet_has(blocked, signo)

\* ProcessSignalManager::dequeue_signal: the hint is cleared, under the store's
\* lock, when the store's set is empty after the dequeue.
proc_dequeue_result(st, r) ==
    [st |-> [st EXCEPT !.pp = r.ps,
                       !.ph = IF SignalSet_is_empty(r.ps.set) THEN FALSE ELSE @],
     ret |-> r.ret]

proc_dequeue_signal_keeps(st, mask) ==
    [st |-> st, ret |-> dequeue_signal(st.pp, mask).ret]

proc_dequeue_signal(st, mask) ==
    proc_dequeue_result(st, dequeue_signal(st.pp, mask))

\* The first registered live thread that does not block signo.
RECURSIVE wake_target(_, _, _, _)
RECURSIVE wake_target_no_upgrade(_, _, _, _)
wake_target_no_upgrade(chs, alive, blk, signo) ==
    IF chs = <<>>
    THEN None
    ELSE IF ~signal_blocked(blk[Head(chs)], signo)
         THEN Some(Head(chs))
         ELSE wake_target_no_upgrade(Tail(chs), alive, blk, signo)

wake_target(chs, alive, blk, signo) ==
    IF chs = <<>>
    THEN None
    ELSE IF Head(chs) \in alive /\ ~signal_blocked(blk[Head(chs)], signo)
         THEN Some(Head(chs))
         ELSE wake_target(Tail(chs), alive, blk, signo)

\* ProcessSignalManager::send_signal: [pp, ph, children, ret].
proc_send_signal_always_hint(acts, pp, ph, chs, alive, blk, sig) ==
    LET signo == sig.signo
    IN  IF signal_ignored(acts, signo)
        THEN [pp |-> pp, ph |-> TRUE, children |-> chs, ret |-> None]
        ELSE LET r == put_signal(pp, sig)
             IN  [pp |-> r.ps,
                  ph |-> TRUE,
                  children |-> SelectSeq(chs, LAMBDA c : c \in alive),
                  ret |-> wake_target(chs, alive, blk, signo)]

proc_send_signal_no_prune(acts, pp, ph, chs, alive, blk, sig) ==
    LET signo == sig.signo
    IN  IF signal_ignored(acts, signo)
        THEN [pp |-> pp, ph |-> ph, children |-> chs, ret |-> None]
        ELSE LET r == put_signal(pp, sig)
             IN  [pp |-> r.ps,
                  ph |-> IF r.ret THEN TRUE ELSE ph,
                  children |-> chs,
                  ret |-> wake_target(chs, alive, blk, signo)]

proc_send_signal(acts, pp, ph, chs, alive, blk, sig) ==
    LET signo == sig.signo
    IN  IF signal_ignored(acts, signo)
        THEN [pp |-> pp, ph |-> ph, children |-> chs, ret |-> None]
        ELSE LET r == put_signal(pp, sig)
             IN  [pp |-> r.ps,
                  ph |-> IF r.ret THEN TRUE ELSE ph,
                  children |-> SelectSeq(chs, LAMBDA c : c \in alive),
                  ret |-> wake_target(chs, alive, blk, signo)]

\* ---------------------------------------------------------------- ThreadSignalManager (src/api/thread.rs)

\* ThreadSignalManager::dequeue_signal: the thread's store first; when it
\* yields nothing the thread hint is cleared and the process store is tried;
\* when that yields nothing either the process hint is cleared.
\* The second match: q is what the process dequeue returned.
thr_dequeue_proc(q) ==
    IF q.ret # None
    THEN q
    ELSE [st |-> [q.st EXCEPT !.ph = FALSE], ret |-> None]

\* The first match: r is what the dequeue from the thread's store returned.
thr_dequeue_thread(st, mask, r) ==
    IF r.ret # None
    THEN [st |-> [st EXCEPT !.tp = r.ps], ret |-> r.ret]
    ELSE thr_dequeue_proc(
             proc_dequeue_signal([st EXCEPT !.tp = r.ps, !.th = FALSE], mask))

thr_dequeue_signal_proc_first(st, mask) ==
    LET q == proc_dequeue_signal(st, mask)
    IN  IF q.ret # None
        THEN q
        ELSE thr_dequeue_thread(q.st, mask, dequeue_signal(q.st.tp, mask))

thr_dequeue_signal(st, mask) ==
    thr_dequeue_thread(st, mask, dequeue_signal(st.tp, mask))

\* The trap frame keeps the registers the manager sets: the instruction
\* pointer, the stack pointer and the first three argument registers (zeroed
\* in the user contexts the tests build).
TrapFrame(ip, sp) == [ip |-> ip, sp |-> sp, arg0 |-> 0, arg1 |-> 0, arg2 |-> 0]

\* SignalStack, SignalStack::default and SignalStack::disabled (the SS_DISABLE
\* flag is set).
SignalStack(sp, flags, size) == [sp |-> sp, flags |-> flags, size |-> size]
SignalStack_default == SignalStack(0, {"SS_DISABLE"}, 0)
disabled(stack) == "SS_DISABLE" \in stack.flags

\* MContext::new and MContext::restore: the registers are copied out of the
\* trap frame and back into it (sp is one of regs).
MContext_new(f) == [pc |-> f.ip, regs |-> f.sp]
MContext_restore(m, f) == [f EXCEPT !.ip = m.pc, !.sp = m.regs]

\* UContext::new
UContext_new(f, sigmask) == [sigmask |-> sigmask, mcontext |-> MContext_new(f)]

\* Layout::new::<SignalFrame>(): its size, and its alignment (MContext is
\* align(16)).
FrameSize == 32
FrameAlign == 16

\* (sp - layout.size()) & !(layout.align() - 1)
AlignedSp(sp) == (sp - FrameSize) - ((sp - FrameSize) % FrameAlign)

\* The architectures: on x86_64 the restorer's address is pushed on the stack
\* (push_ra moves sp down by a word), elsewhere it is put in the ra register.
Archs == {"x86_64", "riscv64"}
RaWidth == 8
HandlerIp == 4096

\* The trap frame of the interrupted user code.
UserIp == 537
UserSp == 264

\* The signal frame written to user memory, and the offsets of its siginfo
\* and ucontext fields.
SignalFrame(ucontext, siginfo, f) ==
    [kind |-> "frame", ucontext |-> ucontext, siginfo |-> siginfo, tf |-> f]
RaWord == [kind |-> "ra"]
UContextOffset == 0
SigInfoOffset == 16

\* The stack pointer the frame goes below: the alternate stack's when it is
\* enabled and the action has ONSTACK, the trap frame's otherwise.
chosen_sp(st, action) ==
    IF disabled(st.stack) \/ "ONSTACK" \notin action.flags
    THEN st.tf.sp
    ELSE st.stack.sp

\* The frame is written at aligned_sp and the trap frame is rewritten; the
\* restorer's address is pushed (x86_64) or put in ra (elsewhere).
set_up_frame_no_args(st, restore_blocked, sig, action) ==
    LET aligned_sp == AlignedSp(chosen_sp(st, action))
        frame == SignalFrame(UContext_new(st.tf, restore_blocked), sig, st.tf)
        written == (aligned_sp :> frame) @@ st.mem
        entry == [st.tf EXCEPT !.ip = HandlerIp, !.sp = aligned_sp]
    IN  IF st.arch = "x86_64"
        THEN [st EXCEPT !.mem = (aligned_sp - RaWidth :> RaWord) @@ written,
                        !.tf = [entry EXCEPT !.sp = @ - RaWidth]]
        ELSE [st EXCEPT !.mem = written, !.tf = entry]

set_up_frame(st, restore_blocked, sig, action) ==
    LET aligned_sp == AlignedSp(chosen_sp(st, action))
        frame == SignalFrame(UContext_new(st.tf, restore_blocked), sig, st.tf)
        written == (aligned_sp :> frame) @@ st.mem
        entry == [st.tf EXCEPT !.ip = HandlerIp,
                               !.sp = aligned_sp,
                               !.arg0 = sig.signo,
                               !.arg1 = aligned_sp + SigInfoOffset,
                               !.arg2 = aligned_sp + UContextOffset]
    IN  IF st.arch = "x86_64"
        THEN [st EXCEPT !.mem = (aligned_sp - RaWidth :> RaWord) @@ written,
                        !.tf = [entry EXCEPT !.sp = @ - RaWidth]]
        ELSE [st EXCEPT !.mem = written, !.tf = entry]

\* ThreadSignalManager::handle_signal.  fault: the write of the frame to user
\* memory fails.  locked: the caller holds the action-table lock (check_signals
\* does), so taking it again for RESETHAND spins forever where the lock spins
\* (smp); where it does not, the entry is written through the second guard.
handle_signal_no_block(st, restore_blocked, sig, action, fault, locked) ==
    LET signo == sig.signo
        add_blocked == IF "NODEFER" \notin action.flags
                       THEN SignalSet_add(action.mask, signo).set
                       ELSE action.mask
    IN  CASE action.disposition = "Default" ->
               [st |-> st,
                ret |-> IF default_action(signo) = "Ignore"
                        THEN None
                        ELSE Some(default_action(signo))]
          [] action.disposition = "Ignore" -> [st |-> st, ret |-> None]
          [] OTHER ->
               IF fault
               THEN [st |-> st, ret |-> Some("CoreDump")]
               ELSE IF "RESETHAND" \in action.flags /\ locked /\ st.smp
                    THEN [st |-> [set_up_frame(st, restore_blocked, sig, action)
                                    EXCEPT !.stuck = TRUE],
                          ret |-> None]
                    ELSE [st |-> [set_up_frame(st, restore_blocked, sig, action) EXCEPT
                                    !.actions = IF "RESETHAND" \in action.flags
                                                THEN [@ EXCEPT ![signo] = SignalAction_default]
                                                ELSE @,
                                    !.blocked = SignalSet_bitor(@, action.mask)],
                          ret |-> Some("Handler")]

handle_signal_fault_terminate(st, restore_blocked, sig, action, fault, locked) ==
    LET signo == sig.signo
        add_blocked == IF "NODEFER" \notin action.flags
                       THEN SignalSet_add(action.mask, signo).set
                       ELSE action.mask
    IN  CASE action.disposition = "Default" ->
               [st |-> st,
                ret |-> IF default_action(signo) = "Ignore"
                        THEN None
                        ELSE Some(default_action(signo))]
          [] action.disposition = "Ignore" -> [st |-> st, ret |-> None]
          [] OTHER ->
               IF fault
               THEN [st |-> st, ret |-> Some("Terminate")]
               ELSE IF "RESETHAND" \in action.flags /\ locked /\ st.smp
                    THEN [st |-> [set_up_frame(st, restore_blocked, sig, action)
                                    EXCEPT !.stuck = TRUE],
                          ret |-> None]
                    ELSE [st |-> [set_up_frame(st, restore_blocked, sig, action) EXCEPT
                                    !.actions = IF "RESETHAND" \in action.flags
                                                THEN [@ EXCEPT ![signo] = SignalAction_default]
                                                ELSE @,
                                    !.blocked = SignalSet_bitor(@, add_blocked)],
                          ret |-> Some("Handler")]

handle_signal_default_reports_ignore(st, restore_blocked, sig, action, fault, locked) ==
    LET signo == sig.signo
        add_blocked == IF "NODEFER" \notin action.flags
                       THEN SignalSet_add(action.mask, signo).set
                       ELSE action.mask
    IN  CASE action.disposition = "Default" ->
               [st |-> st,
                ret |-> Some(default_action(signo))]
          [] action.disposition = "Ignore" -> [st |-> st, ret |-> None]
          [] OTHER ->
               IF fault
               THEN [st |-> st, ret |-> Some("CoreDump")]
               ELSE IF "RESETHAND" \in action.flags /\ locked /\ st.smp
                    THEN [st |-> [set_up_frame(st, restore_blocked, sig, action)
                                    EXCEPT !.stuck = TRUE],
                          ret |-> None]
                    ELSE [st |-> [set_up_frame(st, restore_blocked, sig, action) EXCEPT
                                    !.actions = IF "RESETHAND" \in action.flags
                                                THEN [@ EXCEPT ![signo] = SignalAction_default]
                                                ELSE @,
                                    !.blocked = SignalSet_bitor(@, add_blocked)],
                          ret |-> Some("Handler")]

handle_signal_fault_commits(st, restore_blocked, sig, action, fault, locked) ==
    LET signo == sig.signo
        add_blocked == IF "NODEFER" \notin action.flags
                       THEN SignalSet_add(action.mask, signo).set
                       ELSE action.mask
    IN  CASE action.disposition = "Default" ->
               [st |-> st,
                ret |-> IF default_action(signo) = "Ignore"
                        THEN None
                        ELSE Some(default_action(signo))]
          [] action.disposition = "Ignore" -> [st |-> st, ret |-> None]
          [] OTHER ->
               [st |-> [st EXCEPT
                          !.actions = IF "RESETHAND" \in action.flags
                                      THEN [@ EXCEPT ![signo] = SignalAction_default]
                                      ELSE @,
                          !.blocked = SignalSet_bitor(@, add_blocked)],
                ret |-> IF fault THEN Some("CoreDump") ELSE Some("Handler")]

\* The manager locks the calling context holds at the vm_write of the signal
\* frame.  handle_signal has dropped its own guard of the alternate stack by
\* then; a call from check_signals (locked) runs under the guard of the
\* action table that check_signals took before its loop.
locks_at_write(locked) == IF locked THEN {"actions"} ELSE {}

handle_signal(st, restore_blocked, sig, action, fault, locked) ==
    LET signo == sig.signo
        add_blocked == IF "NODEFER" \notin action.flags
                       THEN SignalSet_add(action.mask, signo).set
                       ELSE action.mask
    IN  CASE action.disposition = "Default" ->
               [st |-> st,
                ret |-> IF default_action(signo) = "Ignore"
                        THEN None
                        ELSE Some(default_action(signo))]
          [] action.disposition = "Ignore" -> [st |-> st, ret |-> None]
          [] OTHER ->
               IF fault
               THEN [st |-> [st EXCEPT !.wlocks = Some(locks_at_write(locked))],
                     ret |-> Some("CoreDump")]
               ELSE IF "RESETHAND" \in action.flags /\ locked /\ st.smp
                    THEN [st |-> [set_up_frame(st, restore_blocked, sig, action)
                                    EXCEPT !.stuck = TRUE,
                                           !.wlocks = Some(locks_at_write(locked))],
                          ret |-> None]
                    ELSE [st |-> [set_up_frame(st, restore_blocked, sig, action) EXCEPT
                                    !.actions = IF "RESETHAND" \in action.flags
                                                THEN [@ EXCEPT ![signo] = SignalAction_default]
                                                ELSE @,
                                    !.blocked = SignalSet_bitor(@, add_blocked),
                                    !.wlocks = Some(locks_at_write(locked))],
                          ret |-> Some("Handler")]

\* ThreadSignalManager::restore: the frame at tf.sp is copied back into the
\* trap frame, the blocked mask is set to the saved sigmask and the thread's
\* hint is set.
restore_keep_blocked(st) ==
    LET frame == st.mem[st.tf.sp]
    IN  [st EXCEPT !.tf = MContext_restore(frame.ucontext.mcontext, frame.tf),
                   !.th = TRUE]

restore_keep_sp(st) ==
    LET frame == st.mem[st.tf.sp]
    IN  [st EXCEPT !.tf = [MContext_restore(frame.ucontext.mcontext, frame.tf)
                             EXCEPT !.sp = st.tf.sp],
                   !.blocked = frame.ucontext.sigmask,
                   !.th = TRUE]

restore_no_hint(st) ==
    LET frame == st.mem[st.tf.sp]
    IN  [st EXCEPT !.tf = MContext_restore(frame.ucontext.mcontext, frame.tf),
                   !.blocked = frame.ucontext.sigmask]

restore(st) ==
    LET frame == st.mem[st.tf.sp]
    IN  [st EXCEPT !.tf = MContext_restore(frame.ucontext.mcontext, frame.tf),
                   !.blocked = frame.ucontext.sigmask,
                   !.th = TRUE]

\* The delivery loop of check_signals.
RECURSIVE check_loop(_, _, _, _)

\* h is what handle_signal returned for sig: an OS action ends the loop.
check_handled(sig, h, mask, restore_blocked, fault) ==
    IF h.st.stuck
    THEN [st |-> h.st, ret |-> None]
    ELSE IF h.ret # None
         THEN [st |-> h.st, ret |-> Some(<<sig, h.ret[1]>>)]
         ELSE check_loop(h.st, mask, restore_blocked, fault)

\* d is what dequeue_signal(&mask) returned: None ends the loop (the ? operator).
check_dequeued(d, mask, restore_blocked, fault) ==
    IF d.ret = None
    THEN [st |-> d.st, ret |-> None]
    ELSE check_handled(
             d.ret[1],
             handle_signal(d.st, restore_blocked, d.ret[1],
                           d.st.actions[d.ret[1].signo], fault, TRUE),
             mask, restore_blocked, fault)

check_loop(st, mask, restore_blocked, fault) ==
    check_dequeued(thr_dequeue_signal(st, mask), mask, restore_blocked, fault)

\* ThreadSignalManager::check_signals
\* unwrap_or_else(|| *blocked)
unwrap_or(opt, default) == IF opt = None THEN default ELSE opt[1]

check_signals_no_mask(st, restore_blocked, fault) ==
    IF ~st.th /\ ~st.ph
    THEN [st |-> st, ret |-> None]
    ELSE check_loop(st, AllBits, unwrap_or(restore_blocked, st.blocked), fault)

check_signals(st, restore_blocked, fault) ==
    IF ~st.th /\ ~st.ph
    THEN [st |-> st, ret |-> None]
    ELSE LET mask == SignalSet_not(st.blocked)
         IN  check_loop(st, mask, unwrap_or(restore_blocked, st.blocked), fault)

\* ThreadSignalManager::send_signal
thr_send_signal_to_proc(st, sig) ==
    LET signo == sig.signo
    IN  IF signal_ignored(st.actions, signo)
        THEN [st |-> st, ret |-> FALSE]
        ELSE LET r == put_signal(st.pp, sig)
             IN  [st |-> [st EXCEPT !.pp = r.ps, !.th = IF r.ret THEN TRUE ELSE @],
                  ret |-> ~signal_blocked(st.blocked, signo)]

thr_send_signal(st, sig) ==
    LET signo == sig.signo
    IN  IF signal_ignored(st.actions, signo)
        THEN [st |-> st, ret |-> FALSE]
        ELSE LET r == put_signal(st.tp, sig)
             IN  [st |-> [st EXCEPT !.tp = r.ps, !.th = IF r.ret THEN TRUE ELSE @],
                  ret |-> ~signal_blocked(st.blocked, signo)]

\* ThreadSignalManager::pending: the union of the two pending sets.
pending(tp, pp) == SignalSet_bitor(tp.set, pp.set)

\* ---------------------------------------------------------------- initial state

\* ProcessSignalManager::new with SignalActions::default, and no thread yet.
\* The kernel contexts that call the stop-event hooks of one process manager,
\* and a context that is in no call.
Contexts == {"setter", "consumer", "peeker"}
Idle == [at |-> "idle", sig |-> None, flags |-> {}]

InitManagers ==
    /\ actions = SignalActions_default
    /\ proc_pending = PendingSignals_new
    /\ proc_possibly_has_signal = FALSE
    /\ children = <<>>
    /\ live = {}
    /\ thr_pending = [t \in Tids |-> PendingSignals_new]
    /\ thr_blocked = [t \in Tids |-> EmptySet]
    /\ thr_possibly_has_signal = [t \in Tids |-> FALSE]
    /\ stuck = {}
    /\ kept = {}
    /\ hidden = {}
    /\ handling = <<>>
    /\ umem = <<>>
    /\ thr_stack = [t \in Tids |-> SignalStack_default]
    /\ signal_events = {}
    /\ last_stop_signal = None
    /\ due = [stop |-> None, cont |-> FALSE]
    /\ write_locks = None
    /\ job_pc = [c \in Contexts |-> Idle]

\* ---------------------------------------------------------------- SpecPending

\* The signal numbers and masks the stand-alone store is driven with.
PSignos == {SIGINT, SIGTERM, SIGRTMIN}
PMasks == (SUBSET PSignos) \cup {SignalSet_not(EmptySet)}

Call(op, tid, arg, res) == [op |-> op, tid |-> tid, arg |-> arg, res |-> res]

NoCall == Call("none", 0, <<>>, <<>>)

InitPending ==
    /\ ps = PendingSignals_new
    /\ ret = NoCall
    /\ tick = FALSE
    /\ InitManagers
    /\ arch = "riscv64"
    /\ smp = TRUE
    /\ tf = TrapFrame(UserIp, UserSp)

PsPut(sig) ==
    \E r \in {put_signal(ps, sig)} :
        /\ sig.signo >= 32 => Len(ps.info_queues[sig.signo - 32]) < MaxQueue
        /\ ps' = r.ps
        /\ ret' = Call("put", 0, <<sig>>, <<r.ret>>)
        /\ tick' = ~tick
        /\ UNCHANGED mgrvars

PsDequeue(mask) ==
    \E r \in {dequeue_signal(ps, mask)} :
        /\ ps' = r.ps
        /\ ret' = Call("dequeue", 0, <<mask>>, r.ret)
        /\ tick' = ~tick
        /\ UNCHANGED mgrvars

PsRemove(signo) ==
    /\ ps' = remove_signal(ps, signo)
    /\ ret' = Call("remove", 0, <<signo>>, <<>>)
    /\ tick' = ~tick
    /\ UNCHANGED mgrvars

NextPending ==
    \/ \E s \in PSignos, c \in Codes : PsPut(SignalInfo(s, c))
    \/ \E m \in PMasks : PsDequeue(m)
    \/ \E s \in PSignos : PsRemove(s)

SpecPending == InitPending /\ [][NextPending]_vars

\* ---------------------------------------------------------------- SpecOrder

\* The stand-alone store driven with the synchronous fatal signals SIGILL and
\* SIGSEGV and the asynchronous signals SIGINT and SIGTERM.
SyncFatal == {SIGILL, SIGSEGV}
Async == {SIGINT, SIGTERM}

NextOrder ==
    \/ \E s \in SyncFatal \cup Async : PsPut(SignalInfo(s, 1))
    \/ \E m \in {SignalSet_not(EmptySet), SyncFatal \cup {SIGTERM}, Async \cup {SIGSEGV}} :
           PsDequeue(m)

SpecOrder == InitPending /\ [][NextOrder]_vars

\* ---------------------------------------------------------------- claims on PendingSignals

IsPut(c) == c.op = "put"
IsDequeue(c) == c.op = "dequeue"
IsStd(signo) == signo < 32
Queue(p, signo) == p.info_queues[signo - 32]

\* C3: standard-signal coalescing.  A put of a standard signo that is not
\* pending stores its info and sets the bit; a put of one that is already
\* pending leaves the whole store as it was (the first info is kept, the later
\* one is discarded) and returns false; a dequeue that returns a standard
\* signo returns the stored (first) info, empties the slot and clears the bit,
\* so that no second dequeue can return it.
C3_StandardCoalescing ==
    [][/\ (IsPut(ret') /\ IsStd(ret'.arg[1].signo)) =>
            LET sig == ret'.arg[1]
                s == sig.signo
            IN  /\ s \in ps.set => (ps' = ps /\ ret'.res = <<FALSE>>)
                /\ s \notin ps.set =>
                      (ps'.infos[s] = Some(sig) /\ s \in ps'.set /\ ret'.res = <<TRUE>>)
       /\ (IsDequeue(ret') /\ ret'.res # None /\ IsStd(ret'.res[1].signo)) =>
            LET s == ret'.res[1].signo
            IN  /\ s \in ps.set
                /\ ret'.res = ps.infos[s]
                /\ ps'.infos[s] = None
                /\ s \notin ps'.set
      ]_psvars

\* C3 witness: a second put of a pending standard signo, with another payload,
\* was discarded and the first payload is still the one stored.
C3_Witness ==
    /\ IsPut(ret)
    /\ ret.arg[1] = SignalInfo(SIGINT, 2)
    /\ ret.res = <<FALSE>>
    /\ ps.infos[SIGINT] = Some(SignalInfo(SIGINT, 1))
    /\ SIGINT \in ps.set

\* The real-time signo a dequeue with this mask has to select: the smallest
\* real-time signo of the mask with a queued instance, provided no standard
\* signo of the mask is pending.
RtSignos == {s \in PSignos : s >= 32}
RtSelected(p, mask) ==
    {s \in RtSignos :
        /\ s \in mask
        /\ Queue(p, s) # <<>>
        /\ \A q \in PSignos : (q < s /\ q \in mask) =>
              IF IsStd(q) THEN p.infos[q] = None ELSE Queue(p, q) = <<>>}

\* C4: real-time queuing.  A put of a real-time signo appends to its queue;
\* a dequeue that selects a real-time signo returns the head of its queue (so
\* N puts are returned by N dequeues in the order they were put), and the bit
\* of the signo is set afterwards exactly when the queue is still non-empty.
C4_RealtimeFifo ==
    [][/\ (IsPut(ret') /\ ~IsStd(ret'.arg[1].signo)) =>
            LET sig == ret'.arg[1]
            IN  Queue(ps', sig.signo) = Append(Queue(ps, sig.signo), sig)
       /\ IsDequeue(ret') =>
            \A s \in RtSelected(ps, ret'.arg[1]) :
                /\ ret'.res = Some(Head(Queue(ps, s)))
                /\ Queue(ps', s) = Tail(Queue(ps, s))
                /\ (s \in ps'.set) <=> (Queue(ps', s) # <<>>)
      ]_psvars

\* C5: ordered dequeue.  dequeue_signal(M) returns None iff set \cap M is
\* empty; otherwise it returns the info of the smallest member of set \cap M
\* and every other pending signo, with its info, stays pending.
C5_OrderedDequeue ==
    [][IsDequeue(ret') =>
            LET mask == ret'.arg[1]
                cand == ps.set \cap mask
            IN  /\ (ret'.res = None) <=> (cand = {})
                /\ cand = {} => ps' = ps
                /\ cand # {} =>
                      /\ ret'.res[1].signo = SetMin(cand)
                      /\ ps'.set = ps.set \ {SetMin(cand)}
                      /\ \A s \in ps.set \ {SetMin(cand)} : ps'.infos[s] = ps.infos[s]
      ]_psvars

\* C5 witness: with SIGINT and SIGTERM both pending and both in the mask, the
\* dequeue returned SIGINT and SIGTERM is still pending.
C5_Witness ==
    /\ IsDequeue(ret)
    /\ {SIGINT, SIGTERM} \subseteq ret.arg[1]
    /\ ret.res # None
    /\ ret.res[1].signo = SIGINT
    /\ SIGTERM \in ps.set

\* C6: representation invariant.  The bit of a signo is in set iff the store
\* holds an info for it: the slot of a standard signo is occupied, or the
\* queue of a real-time signo is non-empty.
C6_RepInvariant ==
    \A s \in 1..64 :
        (s \in ps.set) <=> (IF IsStd(s) THEN ps.infos[s] # None ELSE Queue(ps, s) # <<>>)

\* C7 as stated: put_signal returns true iff the bit of the signo was not in
\* set before the call and is in set after it.
C7_PutReturnsNewBit ==
    [][IsPut(ret') =>
            LET s == ret'.arg[1].signo
            IN  (ret'.res = <<TRUE>>) <=> (s \notin ps.set /\ s \in ps'.set)
      ]_psvars

\* C7 amended: put_signal returns true iff the signo is real-time (every put
\* of a real-time signo is queued and reported), or it is standard and its bit
\* was not in set before the call (and is in set after it); a put of a
\* standard signo that is already pending returns false.
C7_PutReturn ==
    [][IsPut(ret') =>
            LET s == ret'.arg[1].signo
            IN  (ret'.res = <<TRUE>>) <=>
                    (~IsStd(s) \/ (s \notin ps.set /\ s \in ps'.set))
      ]_psvars

\* C7 witness: a put of a real-time signo that already had a queued instance
\* returned true.
C7_Witness ==
    /\ IsPut(ret)
    /\ ret.arg[1].signo = SIGRTMIN
    /\ ret.res = <<TRUE>>
    /\ Len(Queue(ps, SIGRTMIN)) = 2

\* ---------------------------------------------------------------- manager actions

\* ThreadSignalManager::with_blocked_mut: the hint is set, then f is applied
\* to the blocked mask; f_blocked is the mask f leaves.
with_blocked_mut_no_hint(st, f_blocked) == [st EXCEPT !.blocked = f_blocked]

with_blocked_mut(st, f_blocked) == [st EXCEPT !.th = TRUE, !.blocked = f_blocked]

\* The fields of a thread-side operation's result written back.
WriteView(t, st) ==
    /\ thr_pending' = [thr_pending EXCEPT ![t] = st.tp]
    /\ thr_possibly_has_signal' = [thr_possibly_has_signal EXCEPT ![t] = st.th]
    /\ thr_blocked' = [thr_blocked EXCEPT ![t] = st.blocked]
    /\ proc_pending' = st.pp
    /\ proc_possibly_has_signal' = st.ph
    /\ actions' = st.actions
    /\ stuck' = IF st.stuck THEN stuck \cup {t} ELSE stuck
    /\ write_locks' = st.wlocks

\* A real-time queue is filled up to MaxQueue.
QueueRoom(p, sig) == sig.signo >= 32 => Len(Queue(p, sig.signo)) < MaxQueue

\* ThreadSignalManager::new: a fresh manager, registered with the process.
ThreadNew(t) ==
    /\ t \notin live
    /\ \A i \in 1..Len(children) : children[i] # t
    /\ children' = Append(children, t)
    /\ live' = live \cup {t}
    /\ ret' = Call("new", t, <<>>, <<>>)
    /\ tick' = ~tick
    /\ write_locks' = None
    /\ UNCHANGED <<ps, restvars, uservars, actions, proc_pending, proc_possibly_has_signal, thrvars, kept, hidden>>

\* The last Arc of a thread manager is dropped: its Weak in children no longer
\* upgrades; the entry stays until a send_signal prunes it.  A manager created
\* later for the same tid is a fresh one.
ThreadDrop(t) ==
    /\ t \in live
    /\ t \notin stuck
    /\ live' = live \ {t}
    /\ thr_pending' = [thr_pending EXCEPT ![t] = PendingSignals_new]
    /\ thr_blocked' = [thr_blocked EXCEPT ![t] = EmptySet]
    /\ thr_possibly_has_signal' = [thr_possibly_has_signal EXCEPT ![t] = FALSE]
    /\ kept' = {k \in kept : k[2] # t}
    /\ hidden' = {k \in hidden : k[2] # t}
    /\ ret' = Call("drop", t, <<>>, <<>>)
    /\ tick' = ~tick
    /\ write_locks' = None
    /\ UNCHANGED <<ps, restvars, uservars, actions, proc_pending, proc_possibly_has_signal, children, stuck>>

\* The action table is shared and public: actions.lock()[signo] = action.
SetAction(signo, action) ==
    /\ stuck = {}
    /\ actions' = [actions EXCEPT ![signo] = action]
    /\ ret' = Call("set_action", 0, <<signo, action>>, <<>>)
    /\ tick' = ~tick
    /\ write_locks' = None
    /\ UNCHANGED <<ps, restvars, uservars, proc_pending, proc_possibly_has_signal, children, live, thrvars, kept, hidden>>

\* A handler of signo has been delivered and not yet restored.
InHandler(signo) == \E i \in 1..Len(handling) : handling[i].signo = signo

\* The deliveries whose signo is no longer blocked lose their mark: the thread
\* itself has removed the signo from its blocked mask.
MarkUnblocked(h, blocked) ==
    [i \in 1..Len(h) |->
        IF h[i].signo \in blocked THEN h[i] ELSE [h[i] EXCEPT !.intact = FALSE]]

\* The registered live threads, when each of them blocks signo and signo is
\* not ignored: the send keeps signo for them.
KeptBySend(signo) ==
    IF /\ ~signal_ignored(actions, signo)
       /\ \A i \in 1..Len(children) :
             children[i] \in live => signo \in thr_blocked[children[i]]
    THEN {<<signo, children[i]>> : i \in {j \in 1..Len(children) : children[j] \in live}}
    ELSE {}

ProcSend(sig) ==
    \E r \in {proc_send_signal(actions, proc_pending, proc_possibly_has_signal,
                              children, live, thr_blocked, sig)} :
        /\ stuck = {}
        /\ QueueRoom(proc_pending, sig)
        /\ proc_pending' = r.pp
        /\ proc_possibly_has_signal' = r.ph
        /\ children' = r.children
        /\ kept' = kept \cup KeptBySend(sig.signo)
        /\ hidden' = hidden
        /\ ret' = Call("proc_send", 0, <<sig>>, r.ret)
        /\ tick' = ~tick
        /\ write_locks' = None
        /\ UNCHANGED <<ps, restvars, uservars, actions, live, thrvars>>

ThrSend(t, sig) ==
    \E r \in {thr_send_signal(ThreadView(t), sig)} :
        /\ t \in live
        /\ stuck = {}
        /\ QueueRoom(thr_pending[t], sig)
        /\ WriteView(t, r.st)
        /\ hidden' = IF /\ ~signal_ignored(actions, sig.signo)
                        /\ sig.signo \in thr_blocked[t] \/ InHandler(sig.signo)
                     THEN hidden \cup {<<sig.signo, t, sig.signo \in thr_blocked[t],
                                          InHandler(sig.signo)>>}
                     ELSE hidden
        /\ ret' = Call("thr_send", t, <<sig>>, <<r.ret>>)
        /\ tick' = ~tick
        /\ UNCHANGED <<ps, restvars, uservars, children, live, kept>>

CheckSignals(t, fault) ==
    \E r \in {check_signals(ThreadView(t), None, fault)} :
        /\ t \in live
        /\ stuck = {}
        /\ WriteView(t, r.st)
        /\ kept' = IF r.ret = None
                   THEN kept
                   ELSE {k \in kept : k[1] # r.ret[1][1].signo}
        /\ hidden' = {k \in hidden : k[2] = t => k[1] \in r.st.tp.set}
        /\ ret' = Call("check", t, <<fault>>, r.ret)
        /\ tick' = ~tick
        /\ UNCHANGED <<ps, restvars, uservars, children, live>>

\* ThreadSignalManager::dequeue_signal, called by the embedding kernel.
ThrDequeue(t, mask) ==
    \E r \in {thr_dequeue_signal(ThreadView(t), mask)} :
        /\ t \in live
        /\ stuck = {}
        /\ WriteView(t, r.st)
        /\ kept' = IF r.ret = None THEN kept ELSE {k \in kept : k[1] # r.ret[1].signo}
        /\ hidden' = {k \in hidden : k[2] # t}
        /\ ret' = Call("thr_dequeue", t, <<mask>>, r.ret)
        /\ tick' = ~tick
        /\ UNCHANGED <<ps, restvars, uservars, children, live>>

Block(t, signo) ==
    LET add == SignalSet_add(thr_blocked[t], signo).set
    IN  /\ t \in live
        /\ t \notin stuck
        /\ WriteView(t, with_blocked_mut(ThreadView(t), add))
        /\ ret' = Call("block", t, <<signo>>, <<>>)
        /\ tick' = ~tick
        /\ UNCHANGED <<ps, restvars, uservars, children, live, kept, hidden>>

Unblock(t, signo) ==
    LET remove == SignalSet_remove(thr_blocked[t], signo).set
    IN  /\ t \in live
        /\ t \notin stuck
        /\ WriteView(t, with_blocked_mut(ThreadView(t), remove))
        /\ handling' = MarkUnblocked(handling, remove)
        /\ ret' = Call("unblock", t, <<signo>>, <<>>)
        /\ tick' = ~tick
        /\ UNCHANGED <<ps, restvars, tf, umem, arch, children, live, kept, hidden>>

\* What the handler's return pops off the stack before sigreturn runs: the
\* restorer's address where it was pushed.
SigreturnPop(a) == IF a = "x86_64" THEN RaWidth ELSE 0

\* A handler delivery, as the history keeps it: the signo, whether its action
\* has NODEFER, the mask restore has to reinstate and the trap frame on entry.
Delivery(signo, action, restore_blocked, f) ==
    [signo |-> signo,
     nodefer |-> "NODEFER" \in action.flags,
     intact |-> TRUE,
     restore_blocked |-> restore_blocked,
     tf |-> f]

\* check_signals on the thread's own trap frame and user memory, with the
\* restore_blocked the caller supplies.
CheckSignalsTf(t, restore_blocked, fault) ==
    \E r \in {check_signals(ThreadView(t), restore_blocked, fault)} :
        /\ t \in live
        /\ stuck = {}
        /\ Len(handling) < MaxDepth
        /\ WriteView(t, r.st)
        /\ tf' = r.st.tf
        /\ umem' = r.st.mem
        /\ handling' = IF r.ret # None /\ r.ret[1][2] = "Handler"
                       THEN Append(handling,
                                   Delivery(r.ret[1][1].signo,
                                            actions[r.ret[1][1].signo],
                                            unwrap_or(restore_blocked, thr_blocked[t]),
                                            tf))
                       ELSE handling
        /\ kept' = IF r.ret = None
                   THEN kept
                   ELSE {k \in kept : k[1] # r.ret[1][1].signo}
        /\ hidden' = {k \in hidden : k[2] = t => k[1] \in r.st.tp.set}
        /\ ret' = Call("check", t, <<fault, restore_blocked>>, r.ret)
        /\ tick' = ~tick
        /\ UNCHANGED <<ps, restvars, arch, children, live>>

\* handle_signal called directly, as tests/api_thread.rs does: with the
\* current blocked mask as restore_blocked and an action of the caller's.
HandleSignal(t, sig, action) ==
    \E r \in {handle_signal(ThreadView(t), thr_blocked[t], sig,
                             action, FALSE, FALSE)} :
        /\ t \in live
        /\ stuck = {}
        /\ Len(handling) < MaxDepth
        /\ WriteView(t, r.st)
        /\ tf' = r.st.tf
        /\ umem' = r.st.mem
        /\ handling' = IF r.ret = Some("Handler")
                       THEN Append(handling,
                                   Delivery(sig.signo, action, thr_blocked[t], tf))
                       ELSE handling
        /\ ret' = Call("handle", t, <<sig, action>>, r.ret)
        /\ tick' = ~tick
        /\ UNCHANGED <<ps, restvars, arch, children, live, kept, hidden>>

\* sigreturn: the handler has returned (popping the restorer's address where
\* one was pushed) and the kernel calls restore on the frame sp points at.
\* The user stack below the restored stack pointer is dead: the model forgets
\* what was written there.
Sigreturn(t) ==
    LET popped == [ThreadView(t) EXCEPT !.tf.sp = @ + SigreturnPop(arch)]
    IN  /\ t \in live
        /\ t \notin stuck
        /\ handling # <<>>
        /\ popped.tf.sp \in DOMAIN umem
        /\ umem[popped.tf.sp].kind = "frame"
        /\ \E r \in {restore(popped)} :
              /\ WriteView(t, r)
              /\ tf' = r.tf
              /\ umem' = [a \in {b \in DOMAIN umem : b >= r.tf.sp} |-> umem[a]]
              /\ handling' = MarkUnblocked(SubSeq(handling, 1, Len(handling) - 1),
                                           r.blocked)
        /\ ret' = Call("restore", t, <<>>, <<>>)
        /\ tick' = ~tick
        /\ UNCHANGED <<ps, restvars, arch, children, live, kept, hidden>>

\* ---------------------------------------------------------------- Spec: one process, one thread

UserCode == 9

Init ==
    /\ ps = PendingSignals_new
    /\ ret = NoCall
    /\ tick = FALSE
    /\ InitManagers
    /\ arch = "riscv64"
    /\ smp = TRUE
    /\ tf = TrapFrame(UserIp, UserSp)

\* The signal numbers sent, those blocked and unblocked, and the actions set.
ProcSendSignos == {SIGINT, SIGKILL, SIGCHLD}
ThrSendSignos == {SIGINT, SIGCONT, SIGRTMIN}
BlockSignos == {SIGINT, SIGRTMIN}
Handler == SignalAction("Handler", EmptySet, {})
Ignore == SignalAction("Ignore", EmptySet, {})
DequeueMasks == {SignalSet_not(EmptySet), SignalSet_not({SIGINT})}
ActionInputs ==
    ({SIGINT} \X {SignalAction_default, Ignore, Handler})
        \cup ({SIGKILL, SIGCONT} \X {SignalAction_default, Ignore})

Next ==
    \/ ThreadNew(7)
    \/ \E a \in ActionInputs : SetAction(a[1], a[2])
    \/ \E s \in ProcSendSignos : ProcSend(SignalInfo(s, UserCode))
    \/ \E s \in ThrSendSignos : ThrSend(7, SignalInfo(s, UserCode))
    \/ \E f \in BOOLEAN : CheckSignals(7, f)
    \/ \E m \in DequeueMasks : ThrDequeue(7, m)
    \/ \E s \in BlockSignos : Block(7, s)
    \/ \E s \in BlockSignos : Unblock(7, s)

Spec == Init /\ [][Next]_vars

\* ---------------------------------------------------------------- SpecMT: one process, two threads

MTSignos == {SIGINT, SIGTERM}

NextMT ==
    \/ \E t \in Tids : ThreadNew(t)
    \/ \E t \in Tids : ThreadDrop(t)
    \/ \E s \in MTSignos \cup {SIGCHLD} : ProcSend(SignalInfo(s, UserCode))
    \/ \E t \in Tids : ThrSend(t, SignalInfo(SIGINT, UserCode))
    \/ \E t \in Tids : CheckSignals(t, FALSE)
    \/ \E t \in Tids : Block(t, SIGTERM)
    \/ \E t \in Tids : Unblock(t, SIGTERM)

SpecMT == Init /\ [][NextMT]_vars

\* ---------------------------------------------------------------- SpecHandler: handlers and sigreturn

\* The handler actions installed, the signal numbers sent, the restore_blocked
\* snapshots passed to check_signals and the initial stack pointers.
HandlerMasked == SignalAction("Handler", {SIGTERM}, {})
HandlerNoDefer == SignalAction("Handler", EmptySet, {"NODEFER"})
HandlerInputs == {SIGINT} \X {HandlerMasked, HandlerNoDefer}
DirectInputs == {<<SIGINT, HandlerMasked>>, <<SIGRTMIN, Handler>>}
HandlerSignos == {SIGINT, SIGRTMIN}
RestoreInputs == {None, Some({SIGTERM})}

InitHandler ==
    /\ ps = PendingSignals_new
    /\ ret = NoCall
    /\ tick = FALSE
    /\ InitManagers
    /\ arch \in Archs
    /\ smp = TRUE
    /\ tf = TrapFrame(UserIp, UserSp)

NextHandler ==
    \/ ThreadNew(7)
    \/ \E a \in HandlerInputs : SetAction(a[1], a[2])
    \/ \E s \in HandlerSignos : ThrSend(7, SignalInfo(s, UserCode))
    \/ \E rb \in RestoreInputs, f \in BOOLEAN : CheckSignalsTf(7, rb, f)
    \/ \E d \in DirectInputs : HandleSignal(7, SignalInfo(d[1], UserCode), d[2])
    \/ Sigreturn(7)
    \/ Unblock(7, SIGINT)

SpecHandler == InitHandler /\ [][NextHandler]_vars

\* ---------------------------------------------------------------- SpecDirect: handle_signal called directly

\* ThreadSignalManager::with_stack_mut: f is applied to the signal stack;
\* f_stack is the stack f leaves.
with_stack_mut(st, f_stack) == [st EXCEPT !.stack = f_stack]

SetStack(t, f_stack) ==
    /\ t \in live
    /\ t \notin stuck
    /\ thr_stack' = [thr_stack EXCEPT ![t] = with_stack_mut(ThreadView(t), f_stack).stack]
    /\ ret' = Call("set_stack", t, <<f_stack>>, <<>>)
    /\ tick' = ~tick
    /\ write_locks' = None
    /\ UNCHANGED <<ps, procvars, thrvars, uservars, kept, hidden, smp, jobvars, job_pc>>

\* An enabled alternate stack, below the user stack.
AltSp == 128
AltSize == 64
AltStack == SignalStack(AltSp, {}, AltSize)
\* ThreadSignalManager::handle_signal called directly with a stack pointer
\* whose frame cannot be written: vm_write fails.
HandleSignalFault(t, sig, action) ==
    \E r \in {handle_signal(ThreadView(t), thr_blocked[t], sig,
                             action, TRUE, FALSE)} :
        /\ t \in live
        /\ stuck = {}
        /\ WriteView(t, r.st)
        /\ tf' = r.st.tf
        /\ umem' = r.st.mem
        /\ handling' = handling
        /\ ret' = Call("handle", t, <<sig, action, "fault">>, r.ret)
        /\ tick' = ~tick
        /\ UNCHANGED <<ps, restvars, arch, children, live, kept, hidden>>

StackInputs == {SignalStack_default, AltStack}

\* The calls made: each default action and the Ignore disposition, and
\* handlers on the current and on the alternate stack.
HandlerOnStack == SignalAction("Handler", EmptySet, {"ONSTACK"})
DefaultSignos == {SIGINT, SIGQUIT, SIGCHLD, SIGCONT, SIGSTOP, SIGRTMIN}
HandlerResetHand == SignalAction("Handler", {SIGTERM}, {"RESETHAND"})

DirectCalls ==
    (DefaultSignos \X {SignalAction_default})
        \cup ({SIGINT, SIGCHLD} \X {Ignore})
        \cup {<<SIGINT, Handler>>, <<SIGTERM, HandlerOnStack>>}

NextDirect ==
    \/ ThreadNew(7)
    \/ \E s \in StackInputs : SetStack(7, s)
    \/ \E d \in DirectCalls : HandleSignal(7, SignalInfo(d[1], UserCode), d[2])
    \/ Sigreturn(7)
    \/ SetAction(SIGINT, HandlerResetHand)
    \/ HandleSignalFault(7, SignalInfo(SIGINT, UserCode), HandlerResetHand)

SpecDirect == InitHandler /\ [][NextDirect]_vars

\* ---------------------------------------------------------------- SpecFlags: every combination of action flags

\* The flags handle_signal and can_restart read, the handler actions carrying
\* each combination of them, and the builds: SpinNoIrq with and without a lock
\* word.
DeliveryFlags == {"ONSTACK", "NODEFER", "RESETHAND", "RESTART"}
FlagActions == {SignalAction("Handler", EmptySet, F) : F \in SUBSET DeliveryFlags}
FlagInputs == ({SIGINT} \X FlagActions) \cup {<<SIGTERM, Handler>>}

InitFlags ==
    /\ ps = PendingSignals_new
    /\ ret = NoCall
    /\ tick = FALSE
    /\ InitManagers
    /\ arch = "riscv64"
    /\ smp \in BOOLEAN
    /\ tf = TrapFrame(UserIp, UserSp)

NextFlags ==
    \/ ThreadNew(7)
    \/ \E a \in FlagInputs : SetAction(a[1], a[2])
    \/ \E s \in StackInputs : SetStack(7, s)
    \/ ThrSend(7, SignalInfo(SIGINT, UserCode))
    \/ ProcSend(SignalInfo(SIGINT, UserCode))
    \/ CheckSignalsTf(7, None, FALSE)

SpecFlags == InitFlags /\ [][NextFlags]_vars

\* ---------------------------------------------------------------- SpecJob: the job-control events

\* SignalEventFlags: the bits of the u8 signal_events, as sets of bit indices.
EventBits == 0..7
PENDING_STOP_EVENT == {0}
PENDING_CONT_EVENT == {1}

\* The job-control state: the event flags and the last-stop cell.
JobView == [events |-> signal_events, cell |-> last_stop_signal]

\* ProcessSignalManager::set_stop_signal: the cell is written, then the stop
\* flag is or-ed in.
set_stop_signal(js, signal) ==
    [js EXCEPT !.cell = Some(signal), !.events = @ \cup PENDING_STOP_EVENT]

\* ProcessSignalManager::set_cont_signal: the cell is cleared, then the
\* continue flag is or-ed in.
set_cont_signal(js) ==
    [js EXCEPT !.cell = None, !.events = @ \cup PENDING_CONT_EVENT]

\* ProcessSignalManager::peek_pending_stop_event
peek_pending_stop_event(js) ==
    IF js.events \cap PENDING_STOP_EVENT # {} THEN js.cell ELSE None

\* ProcessSignalManager::consume_stop_event: the cell is cleared, then the
\* stop flag is and-ed out.
consume_stop_event_clears_all(js) == [js EXCEPT !.cell = None, !.events = {}]

consume_stop_event(js) ==
    [js EXCEPT !.cell = None, !.events = @ \cap (EventBits \ PENDING_STOP_EVENT)]

\* ProcessSignalManager::peek_pending_cont_event
peek_pending_cont_event(js) == js.events \cap PENDING_CONT_EVENT # {}

\* ProcessSignalManager::consume_cont_event
consume_cont_event(js) ==
    [js EXCEPT !.events = @ \cap (EventBits \ PENDING_CONT_EVENT)]

\* A job-control call: js is the state it leaves, d the history it leaves.
JobCall(op, arg, res, js, d) ==
    /\ signal_events' = js.events
    /\ last_stop_signal' = js.cell
    /\ due' = d
    /\ ret' = Call(op, 0, arg, res)
    /\ tick' = ~tick
    /\ write_locks' = None
    /\ UNCHANGED <<ps, procvars, thrvars, uservars, kept, hidden, smp, thr_stack, job_pc>>

SetStopSignal(signal) ==
    JobCall("set_stop", <<signal>>, <<>>, set_stop_signal(JobView, signal),
            [due EXCEPT !.stop = Some(signal)])

SetContSignal ==
    JobCall("set_cont", <<>>, <<>>, set_cont_signal(JobView),
            [due EXCEPT !.cont = TRUE])

PeekPendingStopEvent ==
    JobCall("peek_stop", <<>>, peek_pending_stop_event(JobView), JobView, due)

ConsumeStopEvent ==
    JobCall("consume_stop", <<>>, <<>>, consume_stop_event(JobView),
            [due EXCEPT !.stop = None])

PeekPendingContEvent ==
    JobCall("peek_cont", <<>>, <<peek_pending_cont_event(JobView)>>, JobView, due)

ConsumeContEvent ==
    JobCall("consume_cont", <<>>, <<>>, consume_cont_event(JobView),
            [due EXCEPT !.cont = FALSE])

\* The signals that stop a process.
StopSignos == {SIGSTOP, SIGTSTP, SIGTTIN, SIGTTOU}

NextJob ==
    \/ \E s \in StopSignos : SetStopSignal(s)
    \/ SetContSignal
    \/ PeekPendingStopEvent
    \/ ConsumeStopEvent
    \/ PeekPendingContEvent
    \/ ConsumeContEvent

SpecJob == Init /\ [][NextJob]_vars

\* ---------------------------------------------------------------- SpecDeliver

\* Two threads of one process that dequeue and check for signals while
\* signals with distinct payloads are sent to the process and to each thread.
NextDeliver ==
    \/ \E t \in Tids : ThreadNew(t)
    \/ \E c \in Codes : ProcSend(SignalInfo(SIGTERM, c))
    \/ \E t \in Tids, c \in Codes : ThrSend(t, SignalInfo(SIGTERM, c))
    \/ \E t \in Tids : CheckSignals(t, FALSE)
    \/ \E t \in Tids : ThrDequeue(t, SignalSet_not(EmptySet))

SpecDeliver == Init /\ [][NextDeliver]_vars

\* ---------------------------------------------------------------- SpecRace

\* The stop-event hooks statement by statement.  Each hook is two accesses:
\* one of last_stop_signal under its lock and one atomic access of
\* signal_events; other contexts run between the two.
JobStep(c, at, cell, events, d) ==
    /\ job_pc' = [job_pc EXCEPT ![c] = at]
    /\ last_stop_signal' = cell
    /\ signal_events' = events
    /\ due' = d
    /\ tick' = ~tick
    /\ write_locks' = None
    /\ UNCHANGED <<ps, procvars, thrvars, uservars, kept, hidden, smp, thr_stack>>

\* set_stop_signal: *self.last_stop_signal.lock() = Some(signal)
SetStopCell(signal) ==
    /\ job_pc["setter"].at = "idle"
    /\ JobStep("setter", [Idle EXCEPT !.at = "flag", !.sig = Some(signal)],
               Some(signal), signal_events, [due EXCEPT !.stop = Some(signal)])
    /\ ret' = ret

\* set_stop_signal: signal_events.fetch_or(PENDING_STOP_EVENT), and return
SetStopFlag ==
    /\ job_pc["setter"].at = "flag"
    /\ JobStep("setter", Idle, last_stop_signal,
               signal_events \cup PENDING_STOP_EVENT, due)
    /\ ret' = Call("set_stop", 0, job_pc["setter"].sig, <<>>)

\* consume_stop_event: *self.last_stop_signal.lock() = None
ConsumeStopCell ==
    /\ job_pc["consumer"].at = "idle"
    /\ JobStep("consumer", [Idle EXCEPT !.at = "flag"], None, signal_events,
               [due EXCEPT !.stop = None])
    /\ ret' = ret

\* consume_stop_event: signal_events.fetch_and(!PENDING_STOP_EVENT), and return
ConsumeStopFlag ==
    /\ job_pc["consumer"].at = "flag"
    /\ JobStep("consumer", Idle, last_stop_signal,
               signal_events \cap (EventBits \ PENDING_STOP_EVENT), due)
    /\ ret' = Call("consume_stop", 0, <<>>, <<>>)

\* peek_pending_stop_event: let flags = self.signal_events.load()
PeekStopLoad ==
    /\ job_pc["peeker"].at = "idle"
    /\ JobStep("peeker", [Idle EXCEPT !.at = "cell", !.flags = signal_events],
               last_stop_signal, signal_events, due)
    /\ ret' = ret

\* peek_pending_stop_event: the read of last_stop_signal when the loaded
\* flags have PENDING_STOP_EVENT, and return; the context keeps the flags it
\* loaded until its next call
PeekStopCell ==
    /\ job_pc["peeker"].at = "cell"
    /\ JobStep("peeker", [job_pc["peeker"] EXCEPT !.at = "idle"],
               last_stop_signal, signal_events, due)
    /\ ret' = Call("peek_stop", 0, <<>>,
                   IF job_pc["peeker"].flags \cap PENDING_STOP_EVENT # {}
                   THEN last_stop_signal
                   ELSE None)

NextRace ==
    \/ \E s \in {SIGSTOP, SIGTSTP} : SetStopCell(s)
    \/ SetStopFlag
    \/ ConsumeStopCell
    \/ ConsumeStopFlag
    \/ PeekStopLoad
    \/ PeekStopCell

SpecRace == Init /\ [][NextRace]_vars

\* ---------------------------------------------------------------- SpecFlush

\* Signo::iter() filtered by a default action of Stop.
stop_signals == {s \in 1..64 : default_action(s) = "Stop"}

flush_stop_signals_only_sigstop(pp) == remove_signal(pp, SIGSTOP)

\* ProcessSignalManager::flush_stop_signals: remove_signal of every stop
\* signal, under one lock of the process store.
flush_stop_signals(pp) == remove_signals(pp, stop_signals)

FlushStopSignals ==
    /\ proc_pending' = flush_stop_signals(proc_pending)
    /\ kept' = {k \in kept : k[1] \notin stop_signals}
    /\ ret' = Call("flush_stop", 0, <<>>, <<>>)
    /\ tick' = ~tick
    /\ write_locks' = None
    /\ UNCHANGED <<ps, restvars, uservars, actions, proc_possibly_has_signal,
                   children, live, thrvars, hidden>>

NextFlush ==
    \/ ThreadNew(7)
    \/ \E s \in {SIGINT, SIGSTOP, SIGTSTP, SIGRTMIN} : ProcSend(SignalInfo(s, UserCode))
    \/ \E s \in {SIGSTOP, SIGRTMIN} : ThrSend(7, SignalInfo(s, UserCode))
    \/ Block(7, SIGSTOP)
    \/ FlushStopSignals

SpecFlush == Init /\ [][NextFlush]_vars

\* ---------------------------------------------------------------- SpecAction: sigaction conversion

\* The flags word of a k_sigaction is the set of its bit indices.  The bits
\* of the Linux flags: SA_NOCLDSTOP = 1, SA_SIGINFO = 4, SA_RESTORER =
\* 0x04000000, SA_ONSTACK = 0x08000000, SA_RESTART = 0x10000000, SA_NODEFER =
\* 0x40000000, SA_RESETHAND = 0x80000000.
SA_NOCLDSTOP == 0
SA_SIGINFO == 2
SA_RESTORER == 26
SA_ONSTACK == 27
SA_RESTART == 28
SA_NODEFER == 30
SA_RESETHAND == 31

\* bitflags! SignalActionFlags: the flags defined and the bit of each.
SignalActionFlags ==
    [SIGINFO |-> SA_SIGINFO,
     NODEFER |-> SA_NODEFER,
     RESETHAND |-> SA_RESETHAND,
     RESTART |-> SA_RESTART,
     RESTORER |-> SA_RESTORER]

\* SignalActionFlags::from_bits: None when a bit belongs to no defined flag.
from_bits(bits) ==
    IF \E b \in bits : \A f \in DOMAIN SignalActionFlags : SignalActionFlags[f] # b
    THEN None
    ELSE Some({f \in DOMAIN SignalActionFlags : SignalActionFlags[f] \in bits})

\* k_sigaction: handler is 0 for SIG_DFL, 1 for SIG_IGN and the handler's
\* address otherwise.
SIG_DFL == 0
SIG_IGN == 1
k_sigaction(handler, flags, mask) == [handler |-> handler, flags |-> flags, mask |-> mask]

\* The disposition try_from reads out of the handler word.
disposition_of(handler) ==
    CASE handler = SIG_DFL -> "Default"
      [] handler = SIG_IGN -> "Ignore"
      [] OTHER -> "Handler"

\* TryFrom<k_sigaction> for SignalAction: Err(EINVAL) when from_bits fails.
try_from(value) ==
    IF from_bits(value.flags) = None
    THEN [ok |-> FALSE, err |-> "EINVAL"]
    ELSE [ok |-> TRUE,
          action |-> SignalAction(disposition_of(value.handler), value.mask,
                                  from_bits(value.flags)[1])]

\* sigaction as the kernel around the crate performs it: the external
\* sigaction is converted (the ? operator returns the error to the caller)
\* and the result is stored in the action table.
Sigaction(signo, value) ==
    \E r \in {try_from(value)} :
        /\ stuck = {}
        /\ actions' = IF r.ok THEN [actions EXCEPT ![signo] = r.action] ELSE actions
        /\ ret' = Call("sigaction", 0, <<signo, value>>,
                       IF r.ok THEN <<"Ok">> ELSE <<r.err>>)
        /\ tick' = ~tick
        /\ write_locks' = None
        /\ UNCHANGED <<ps, restvars, uservars, proc_pending, proc_possibly_has_signal,
                       children, live, thrvars, kept, hidden>>

\* The external sigactions converted: each handler word, with each set of
\* four flag bits.
SigactionFlagBits == {SA_NOCLDSTOP, SA_SIGINFO, SA_ONSTACK, SA_RESETHAND}
SigactionInputs ==
    {k_sigaction(h, f, {SIGTERM}) : h \in {SIG_DFL, SIG_IGN, HandlerIp},
                                    f \in SUBSET SigactionFlagBits}

NextAction == \E v \in SigactionInputs : Sigaction(SIGINT, v)

SpecAction == Init /\ [][NextAction]_vars

\* ---------------------------------------------------------------- claims on the managers

IsCheck(c) == c.op = "check"
IsProcSend(c) == c.op = "proc_send"
IsThrSend(c) == c.op = "thr_send"

\* The disposition of signo discards it: Ignore, or Default with default
\* action Ignore.
IgnoredDisposition(acts, signo) ==
    \/ acts[signo].disposition = "Ignore"
    \/ acts[signo].disposition = "Default" /\ default_action(signo) = "Ignore"

\* C1: check_signals never delivers a blocked signal.  The signo a
\* check_signals call returns is not in the thread's blocked mask as it was on
\* entry, and every signo of that mask that was pending, in the thread's store
\* or the process's, is still pending there with its info.
C1_NoBlockedDelivery ==
    [][IsCheck(ret') =>
            LET t == ret'.tid
                b == thr_blocked[t]
            IN  /\ ret'.res # None => ret'.res[1][1].signo \notin b
                /\ \A s \in b :
                      /\ s \in thr_pending[t].set =>
                            /\ s \in thr_pending'[t].set
                            /\ thr_pending'[t].infos[s] = thr_pending[t].infos[s]
                      /\ s \in proc_pending.set =>
                            /\ s \in proc_pending'.set
                            /\ proc_pending'.infos[s] = proc_pending.infos[s]
      ]_vars

\* C1 witness: check_signals returned SIGCONT while the smaller SIGINT is
\* blocked and pending in the thread's store.
C1_Witness ==
    /\ IsCheck(ret)
    /\ ret.res # None
    /\ ret.res[1][1].signo = SIGCONT
    /\ SIGINT \in thr_blocked[7]
    /\ SIGINT \in thr_pending[7].set

\* A signo is deliverable to thread t: pending in t's store or the process's
\* and not blocked by t.
Deliverable(t) ==
    {s \in Signos : s \notin thr_blocked[t]
                    /\ (s \in thr_pending[t].set \/ s \in proc_pending.set)}

\* C2: no false negative of the fast-path hint.  Between operations, whenever
\* a signo is deliverable to a thread, the thread's hint or the process's hint
\* is true.
C2_NoFalseNegative ==
    \A t \in live :
        Deliverable(t) # {} =>
            (thr_possibly_has_signal[t] \/ proc_possibly_has_signal)

\* C8 as stated: a send of a signo without side effect that the disposition
\* ignores returns None (process) or false (thread), and afterwards the signo
\* is in neither pending set and no hint has changed.
C8_IgnoredNotPending ==
    [][(/\ IsProcSend(ret') \/ IsThrSend(ret')
        /\ ~has_side_effect(ret'.arg[1].signo)
        /\ IgnoredDisposition(actions, ret'.arg[1].signo)) =>
            LET s == ret'.arg[1].signo
            IN  /\ IsProcSend(ret') => ret'.res = None
                /\ IsThrSend(ret') => ret'.res = <<FALSE>>
                /\ s \notin proc_pending'.set
                /\ \A t \in Tids : s \notin thr_pending'[t].set
                /\ proc_possibly_has_signal' = proc_possibly_has_signal
                /\ thr_possibly_has_signal' = thr_possibly_has_signal
      ]_vars

\* C8 amended: such a send returns None (process) or false (thread) and
\* enqueues nothing: both pending stores and both hints are as they were
\* before the call (the signo is pending afterwards only if it already was).
C8_IgnoredNotEnqueued ==
    [][(/\ IsProcSend(ret') \/ IsThrSend(ret')
        /\ ~has_side_effect(ret'.arg[1].signo)
        /\ IgnoredDisposition(actions, ret'.arg[1].signo)) =>
            /\ IsProcSend(ret') => ret'.res = None
            /\ IsThrSend(ret') => ret'.res = <<FALSE>>
            /\ proc_pending' = proc_pending
            /\ thr_pending' = thr_pending
            /\ proc_possibly_has_signal' = proc_possibly_has_signal
            /\ thr_possibly_has_signal' = thr_possibly_has_signal
      ]_vars

\* C8 witness: SIGINT, with disposition Ignore, was sent to the process; the
\* call returned None and the process hint is not set.
C8_Witness ==
    /\ IsProcSend(ret)
    /\ ret.arg[1].signo = SIGINT
    /\ actions[SIGINT].disposition = "Ignore"
    /\ ret.res = None
    /\ ~proc_possibly_has_signal
    /\ SIGINT \notin proc_pending.set

\* signal_ignored is as C9 says, for every signo of the action table.
SignalIgnoredAsClaimed ==
    \A s \in Signos :
        signal_ignored(actions, s) <=>
            (s \notin {SIGCONT, SIGKILL} /\ IgnoredDisposition(actions, s))

\* C9: signal_ignored is false for SIGCONT and SIGKILL whatever their
\* disposition, and for every other signo true iff the disposition is Ignore,
\* or Default with default action Ignore; a send of SIGCONT or SIGKILL puts it
\* into the pending store it is sent to.
C9_SideEffectNeverIgnored ==
    [][/\ SignalIgnoredAsClaimed
       /\ SignalIgnoredAsClaimed'
       /\ (IsProcSend(ret') /\ ret'.arg[1].signo \in {SIGCONT, SIGKILL}) =>
            ret'.arg[1].signo \in proc_pending'.set
       /\ (IsThrSend(ret') /\ ret'.arg[1].signo \in {SIGCONT, SIGKILL}) =>
            ret'.arg[1].signo \in thr_pending'[ret'.tid].set
      ]_vars

\* C9 witness: SIGKILL, with disposition Ignore, was sent to the process and
\* is pending.
C9_Witness ==
    /\ IsProcSend(ret)
    /\ ret.arg[1].signo = SIGKILL
    /\ actions[SIGKILL].disposition = "Ignore"
    /\ SIGKILL \in proc_pending.set
    /\ proc_possibly_has_signal

\* C10: T.send_signal(s) returns true iff s is not ignored and not in
\* T.blocked; whenever s is not ignored, s is in T.pending() after the call.
C10_ThreadSendResult ==
    [][IsThrSend(ret') =>
            LET t == ret'.tid
                s == ret'.arg[1].signo
                ignored == ~has_side_effect(s) /\ IgnoredDisposition(actions, s)
            IN  /\ (ret'.res = <<TRUE>>) <=> (~ignored /\ s \notin thr_blocked[t])
                /\ ~ignored => SignalSet_has(pending(thr_pending'[t], proc_pending'), s)
      ]_vars

\* The store holds an info for signo: its slot (standard) or its queue
\* (real-time) is occupied.
Holds(p, signo) ==
    IF IsStd(signo) THEN p.infos[signo] # None ELSE Queue(p, signo) # <<>>

\* C11: separation of the two pending levels.  A thread send_signal leaves
\* the process store and every other thread's store unchanged and, unless the
\* signo is ignored, the thread's own store holds the signo afterwards; a
\* process send_signal leaves every thread's store unchanged and, unless the
\* signo is ignored, the process store holds the signo afterwards.
C11_LevelsSeparate ==
    [][/\ IsThrSend(ret') =>
            /\ proc_pending' = proc_pending
            /\ \A u \in Tids \ {ret'.tid} : thr_pending'[u] = thr_pending[u]
            /\ ~signal_ignored(actions, ret'.arg[1].signo) =>
                  Holds(thr_pending'[ret'.tid], ret'.arg[1].signo)
       /\ IsProcSend(ret') =>
            /\ thr_pending' = thr_pending
            /\ ~signal_ignored(actions, ret'.arg[1].signo) =>
                  Holds(proc_pending', ret'.arg[1].signo)
      ]_vars

\* C11 witness: SIGINT was sent to thread 7 while thread 9 exists; it is held
\* by thread 7's store only.
C11_Witness ==
    /\ IsThrSend(ret)
    /\ ret.tid = 7
    /\ ret.arg[1].signo = SIGINT
    /\ 9 \in live
    /\ Holds(thr_pending[7], SIGINT)
    /\ ~Holds(thr_pending[9], SIGINT)
    /\ ~Holds(proc_pending, SIGINT)

\* The positions in children of the live threads that do not block signo.
WakeCandidates(signo) ==
    {i \in 1..Len(children) :
        children[i] \in live /\ signo \notin thr_blocked[children[i]]}

\* C12: wake targeting.  A process send_signal of a signo that is not ignored
\* returns the tid of the first registered live thread whose blocked mask does
\* not contain the signo, and None iff there is no such thread; a dropped
\* thread is never returned.
C12_WakeTargeting ==
    [][(IsProcSend(ret') /\ ~signal_ignored(actions, ret'.arg[1].signo)) =>
            LET cands == WakeCandidates(ret'.arg[1].signo)
            IN  /\ (ret'.res = None) <=> (cands = {})
                /\ cands # {} => ret'.res = Some(children[SetMin(cands)])
                /\ ret'.res # None => ret'.res[1] \in live
      ]_vars

\* C12 witness: with threads 7 and 9 registered in this order and both live,
\* SIGTERM blocked by thread 7 only, the send returned thread 9.
C12_Witness ==
    /\ IsProcSend(ret)
    /\ ret.arg[1].signo = SIGTERM
    /\ children = <<7, 9>>
    /\ live = {7, 9}
    /\ SIGTERM \in thr_blocked[7]
    /\ SIGTERM \notin thr_blocked[9]
    /\ ret.res = Some(9)

\* C13: a process-directed signo that every registered thread blocks is kept
\* for the first thread that can take it.  Such a send returns None and the
\* signo is in the process store; it stays there until a check_signals
\* returns it; and a check_signals of a thread that has since removed the
\* signo from its blocked mask does not return None, and returns that signo
\* when it is the only one the thread can take.
C13_KeptForUnblocker ==
    [][/\ (IsProcSend(ret') /\ KeptBySend(ret'.arg[1].signo) # {}) =>
            /\ ret'.res = None
            /\ ret'.arg[1].signo \in proc_pending'.set
       /\ \A k \in kept' : k[1] \in proc_pending'.set
       /\ IsCheck(ret') =>
            \A k \in kept :
                (k[2] = ret'.tid /\ k[1] \notin thr_blocked[k[2]]) =>
                    /\ ret'.res # None
                    /\ Deliverable(k[2]) = {k[1]} => ret'.res[1][1].signo = k[1]
      ]_vars

IsThrDequeue(c) == c.op = "thr_dequeue"

\* The signos of mask a store holds an info for.
HeldIn(p, mask) == {s \in Signos : s \in mask /\ Holds(p, s)}

\* C14: the thread's store is drained before the process's.  A thread
\* dequeue_signal(mask) returns a signo from the thread's own store, leaving
\* the process store alone, whenever that store holds a signo of mask; it
\* returns one from the process store only when the thread's store holds none,
\* and None only when neither store holds one.
C14_ThreadFirst ==
    [][IsThrDequeue(ret') =>
            LET t == ret'.tid
                tc == HeldIn(thr_pending[t], ret'.arg[1])
                pc == HeldIn(proc_pending, ret'.arg[1])
            IN  /\ tc # {} =>
                      /\ ret'.res # None
                      /\ ret'.res[1].signo \in tc
                      /\ ~Holds(thr_pending'[t], ret'.res[1].signo)
                      /\ proc_pending' = proc_pending
                /\ (tc = {} /\ pc # {}) =>
                      /\ ret'.res # None
                      /\ ret'.res[1].signo \in pc
                      /\ thr_pending' = thr_pending
                /\ (tc = {} /\ pc = {}) => ret'.res = None
      ]_vars

\* The standard signos thread t's own store holds that t does not block and
\* whose disposition does not discard them.
ThreadTakes(t) ==
    {s \in Signos : /\ IsStd(s)
                    /\ Holds(thr_pending[t], s)
                    /\ s \notin thr_blocked[t]
                    /\ ~IgnoredDisposition(actions, s)}

\* C15: block hides but preserves (thread level).  For a signo sent to the
\* thread while the thread blocked it: a check_signals made while it is still
\* blocked leaves it in the thread's store, with its info; a check_signals
\* made after the thread has removed it from its blocked mask (its
\* disposition not discarding it) does not return None, and returns that
\* signo when it is the smallest one the thread's store can deliver.
C15_BlockPreserves ==
    [][IsCheck(ret') =>
            \A k \in hidden :
                (k[2] = ret'.tid /\ k[3]) =>
                    LET t == k[2]
                        s == k[1]
                    IN  /\ s \in thr_blocked[t] =>
                              /\ thr_pending[t].infos[s] # None
                              /\ thr_pending'[t].infos[s] = thr_pending[t].infos[s]
                              /\ s \in thr_pending'[t].set
                        /\ (s \notin thr_blocked[t] /\ ~IgnoredDisposition(actions, s)) =>
                              /\ ret'.res # None
                              /\ s = SetMin(ThreadTakes(t)) => ret'.res[1][1].signo = s
      ]_vars

\* C15 witness: SIGINT was sent to thread 7 while blocked; a check_signals
\* found nothing to deliver and cleared the thread's hint, and SIGINT is still
\* held by the thread's store.
C15_Witness ==
    /\ IsCheck(ret)
    /\ ret.res = None
    /\ <<SIGINT, 7, TRUE, FALSE>> \in hidden
    /\ SIGINT \in thr_blocked[7]
    /\ thr_pending[7].infos[SIGINT] = Some(SignalInfo(SIGINT, UserCode))
    /\ ~thr_possibly_has_signal[7]

IsHandle(c) == c.op = "handle"
IsRestore(c) == c.op = "restore"

\* A call that delivered a handler, the signo it delivered and the action it
\* delivered it with: check_signals uses the entry of the action table,
\* handle_signal the action it is given.
DeliveredHandler(c) ==
    \/ IsCheck(c) /\ c.res # None /\ c.res[1][2] = "Handler"
    \/ IsHandle(c) /\ c.res = Some("Handler")
DeliveredSigno(c) == IF IsCheck(c) THEN c.res[1][1].signo ELSE c.arg[1].signo
DeliveredAction(c, acts) == IF IsCheck(c) THEN acts[DeliveredSigno(c)] ELSE c.arg[2]

\* C16: handler delivery blocks the right signals.  When handle_signal,
\* called directly or by check_signals, returns Handler for signo s with action
\* A, the thread's blocked mask afterwards is its previous value united with
\* A.mask and, unless A has NODEFER, with {s}.
C16_HandlerBlocks ==
    [][DeliveredHandler(ret') =>
            LET t == ret'.tid
                s == DeliveredSigno(ret')
                A == DeliveredAction(ret', actions)
            IN  thr_blocked'[t] =
                    (thr_blocked[t] \cup A.mask)
                        \cup (IF "NODEFER" \in A.flags THEN {} ELSE {s})
      ]_vars

\* C17: restore reinstates the saved mask.  After a sigreturn the blocked
\* mask is the restore_blocked of the delivery it ends: the mask the caller
\* supplied, or else the blocked mask on entry to check_signals.
C17_RestoreMask ==
    [][IsRestore(ret') =>
            thr_blocked'[ret'.tid] = handling[Len(handling)].restore_blocked
      ]_vars

\* C17 witness: the last handler has been restored and the blocked mask is
\* the snapshot {SIGTERM} the caller supplied, without SIGINT.
C17_Witness ==
    /\ IsRestore(ret)
    /\ handling = <<>>
    /\ thr_blocked[7] = {SIGTERM}

\* C18: restore is a left inverse of handle_signal on the trap frame.  After
\* the handler's return has popped what handle_signal pushed and restore has
\* run, ip and sp are those of the trap frame handle_signal was given.
C18_RestoreTrapFrame ==
    [][IsRestore(ret') =>
            /\ tf'.ip = handling[Len(handling)].tf.ip
            /\ tf'.sp = handling[Len(handling)].tf.sp
      ]_vars

\* C18 witness: on x86_64, where the restorer's address is pushed, the last
\* handler has been restored and the trap frame is the initial one.
C18_Witness ==
    /\ IsRestore(ret)
    /\ arch = "x86_64"
    /\ handling = <<>>
    /\ tf = TrapFrame(UserIp, UserSp)

\* C19: no nested delivery of the signal being handled.  While a handler
\* delivered for signo s without NODEFER has not been restored, and the thread
\* has not itself removed s from its blocked mask, no check_signals returns s.
C19_NoNestedDelivery ==
    [][(IsCheck(ret') /\ ret'.res # None) =>
            \A i \in 1..Len(handling) :
                (~handling[i].nodefer /\ handling[i].intact) =>
                    handling[i].signo # ret'.res[1][1].signo
      ]_vars

\* C19 witness: the handler of SIGINT is running, SIGINT was sent again and
\* is held by the thread's store, and a check_signals did not return it.
C19_Witness ==
    /\ IsCheck(ret)
    /\ ret.res = None
    /\ Len(handling) = 1
    /\ handling[1].signo = SIGINT
    /\ ~handling[1].nodefer
    /\ handling[1].intact
    /\ thr_pending[7].infos[SIGINT] # None

\* The signos thread t's own store holds that t does not block and whose
\* disposition does not discard them.
ThreadHolds(t) ==
    {s \in Signos : /\ Holds(thr_pending[t], s)
                    /\ s \notin thr_blocked[t]
                    /\ ~IgnoredDisposition(actions, s)}

\* C20: a signal that arrives while its handler runs is delivered after
\* sigreturn.  A signo sent to the thread while its handler runs is held by
\* the thread's store; once the handler has been restored and the signo is
\* not blocked, check_signals does not return None, and returns that signo
\* when it is the smallest one the thread's store can deliver.
C20_DeliveredAfterSigreturn ==
    [][/\ (/\ IsThrSend(ret')
           /\ InHandler(ret'.arg[1].signo)
           /\ ~signal_ignored(actions, ret'.arg[1].signo)) =>
              Holds(thr_pending'[ret'.tid], ret'.arg[1].signo)
       /\ IsCheck(ret') =>
            \A k \in hidden :
                (/\ k[2] = ret'.tid
                 /\ k[4]
                 /\ ~InHandler(k[1])
                 /\ k[1] \notin thr_blocked[k[2]]
                 /\ ~IgnoredDisposition(actions, k[1])) =>
                    /\ ret'.res # None
                    /\ k[1] = SetMin(ThreadHolds(k[2])) => ret'.res[1][1].signo = k[1]
      ]_vars

\* ---------------------------------------------------------------- claims on handle_signal

\* The stack pointer a direct handle_signal call of thread 7 chooses, its
\* aligned frame address, and the action the call was given.
CallAction(c) == c.arg[2]
ChosenSp(c) ==
    IF disabled(thr_stack[7]) \/ "ONSTACK" \notin CallAction(c).flags
    THEN tf.sp
    ELSE thr_stack[7].sp

EntersHandler(c) == IsHandle(c) /\ c.res = Some("Handler")

\* What C21 says of every register but sp: ip is the handler, arg0 the signo,
\* arg1 and arg2 the addresses of the siginfo and the ucontext of the frame
\* written at aligned_sp, which is aligned and strictly below the chosen sp.
RewritesTrapFrame(c, aligned_sp, chosen) ==
    /\ aligned_sp < chosen
    /\ aligned_sp % FrameAlign = 0
    /\ aligned_sp \in DOMAIN umem'
    /\ umem'[aligned_sp].kind = "frame"
    /\ umem'[aligned_sp].siginfo = c.arg[1]
    /\ tf'.ip = HandlerIp
    /\ tf'.arg0 = c.arg[1].signo
    /\ tf'.arg1 = aligned_sp + SigInfoOffset
    /\ tf'.arg2 = aligned_sp + UContextOffset
    /\ tf'.arg1 >= aligned_sp /\ tf'.arg1 < aligned_sp + FrameSize
    /\ tf'.arg2 >= aligned_sp /\ tf'.arg2 < aligned_sp + FrameSize

\* C21 as stated: when handle_signal returns Handler, the trap frame has
\* ip = H, sp = aligned_sp, arg0 = signo, arg1 = &frame.siginfo and
\* arg2 = &frame.ucontext, on every architecture.
C21_SpIsAlignedSp ==
    [][EntersHandler(ret') =>
          /\ RewritesTrapFrame(ret', AlignedSp(ChosenSp(ret')), ChosenSp(ret'))
          /\ tf'.sp = AlignedSp(ChosenSp(ret'))]_vars

\* C21: when handle_signal returns Handler, the trap frame has ip = H,
\* arg0 = signo, arg1 = &frame.siginfo, arg2 = &frame.ucontext, the frame is at
\* aligned_sp (aligned, strictly below the chosen stack pointer), and sp is
\* aligned_sp, less the width of the restorer's address where it is pushed on
\* the stack (x86_64).
C21_HandlerEntry ==
    [][EntersHandler(ret') =>
          /\ RewritesTrapFrame(ret', AlignedSp(ChosenSp(ret')), ChosenSp(ret'))
          /\ tf'.sp = AlignedSp(ChosenSp(ret')) - SigreturnPop(arch)]_vars

\* A handler was entered on the alternate stack on x86_64: sp is a word below
\* the frame.
C21_Witness ==
    /\ EntersHandler(ret)
    /\ arch = "x86_64"
    /\ "ONSTACK" \in CallAction(ret).flags
    /\ tf.sp = AlignedSp(AltSp) - RaWidth
    /\ tf.arg0 = SIGTERM
    /\ tf.arg1 = AlignedSp(AltSp) + SigInfoOffset

\* ---------------------------------------------------------------- claims on faults and flags

\* The signos of a pending set that thread t does not block and whose
\* disposition does not discard them: check_signals stops at the lowest.
Stops(t, set) ==
    {s \in set \cap Signos : s \notin thr_blocked[t] /\ ~IgnoredDisposition(actions, s)}

\* The store the check_signals of thread t takes its signal from ("thread",
\* "process" or "none"), and the signo it takes.
TakenFrom(t) ==
    IF Stops(t, thr_pending[t].set) # {}
    THEN "thread"
    ELSE IF Stops(t, proc_pending.set) # {} THEN "process" ELSE "none"

TakenSigno(t) ==
    IF TakenFrom(t) = "thread"
    THEN SetMin(Stops(t, thr_pending[t].set))
    ELSE SetMin(Stops(t, proc_pending.set))

SlowPath(t) == thr_possibly_has_signal[t] \/ proc_possibly_has_signal

\* C22: a fault while writing the signal frame turns delivery into CoreDump.
\* When check_signals reaches a signal with a Handler disposition and the
\* write of its frame fails, the call returns (that signal, CoreDump) and the
\* signal is gone from the store it was taken from.
C22_FaultCoreDump ==
    [][(/\ IsCheck(ret')
        /\ ret'.arg[1]
        /\ SlowPath(ret'.tid)
        /\ TakenFrom(ret'.tid) # "none"
        /\ actions[TakenSigno(ret'.tid)].disposition = "Handler")
       => (/\ ret'.res # None
           /\ ret'.res[1][1].signo = TakenSigno(ret'.tid)
           /\ ret'.res[1][2] = "CoreDump"
           /\ IF TakenFrom(ret'.tid) = "thread"
              THEN /\ TakenSigno(ret'.tid) \notin thr_pending'[ret'.tid].set
                   /\ thr_pending'[ret'.tid].infos[TakenSigno(ret'.tid)] = None
              ELSE /\ TakenSigno(ret'.tid) \notin proc_pending'.set
                   /\ proc_pending'.infos[TakenSigno(ret'.tid)] = None)]_vars

\* A faulting check_signals has returned (SIGINT, CoreDump) for the handler
\* installed for SIGINT, and SIGINT is pending nowhere.
C22_Witness ==
    /\ IsCheck(ret)
    /\ ret.arg[1]
    /\ ret.res = Some(<<SignalInfo(SIGINT, UserCode), "CoreDump">>)
    /\ actions[SIGINT].disposition = "Handler"
    /\ SIGINT \notin thr_pending[7].set
    /\ SIGINT \notin proc_pending.set

\* The OS action of the default action of each signo handle_signal is called
\* with: None where the default action is to ignore the signal.
ExpectedDefault(signo) ==
    CASE signo = SIGINT -> Some("Terminate")
      [] signo = SIGQUIT -> Some("CoreDump")
      [] signo = SIGCHLD -> None
      [] signo = SIGCONT -> Some("Continue")
      [] signo = SIGSTOP -> Some("Stop")
      [] signo = SIGRTMIN -> Some("Terminate")

\* C23: the Default and Ignore dispositions are pure.  handle_signal with
\* disposition Default returns the OS action of the signo's default action, or
\* None when that is to ignore; with disposition Ignore it returns None; and in
\* both cases the trap frame, the blocked mask, the action table and user
\* memory are unchanged.
C23_DefaultIgnorePure ==
    [][(IsHandle(ret') /\ CallAction(ret').disposition \in {"Default", "Ignore"})
       => (/\ ret'.res = IF CallAction(ret').disposition = "Ignore"
                         THEN None
                         ELSE ExpectedDefault(ret'.arg[1].signo)
           /\ tf' = tf
           /\ umem' = umem
           /\ thr_blocked' = thr_blocked
           /\ actions' = actions)]_vars

\* handle_signal has returned Stop for SIGSTOP with the Default disposition
\* while a handler was running on the frame written for it.
C23_Witness ==
    /\ IsHandle(ret)
    /\ CallAction(ret).disposition = "Default"
    /\ ret.arg[1].signo = SIGSTOP
    /\ ret.res = Some("Stop")
    /\ handling # <<>>
    /\ tf.ip = HandlerIp
    /\ umem # <<>>

\* C24: RESETHAND is one-shot.  When check_signals delivers signo s to a
\* Handler action with RESETHAND, it returns (s, Handler) and afterwards the
\* action table entry of s is the default action and every other entry is
\* unchanged.
C24_ResetHandOneShot ==
    [][(/\ IsCheck(ret')
        /\ ~ret'.arg[1]
        /\ SlowPath(ret'.tid)
        /\ TakenFrom(ret'.tid) # "none"
        /\ actions[TakenSigno(ret'.tid)].disposition = "Handler"
        /\ "RESETHAND" \in actions[TakenSigno(ret'.tid)].flags)
       => (/\ ret'.res # None
           /\ ret'.res[1][1].signo = TakenSigno(ret'.tid)
           /\ ret'.res[1][2] = "Handler"
           /\ actions' = [actions EXCEPT ![TakenSigno(ret'.tid)] = SignalAction_default])]_vars

\* C25: check_signals and send_signal never block.  No call spins forever on
\* a lock: between operations no thread is stuck inside a call.
C25_NeverBlocks == stuck = {}

\* ---------------------------------------------------------------- claims on the job-control events

IsPeekStop(c) == c.op = "peek_stop"
IsPeekCont(c) == c.op = "peek_cont"
StopFlag(events) == events \cap PENDING_STOP_EVENT # {}
ContFlag(events) == events \cap PENDING_CONT_EVENT # {}

\* C26: after set_stop_signal(s) every peek_pending_stop_event
\* returns Some(s) until consume_stop_event, whatever set_cont_signal,
\* consume_cont_event and peeks occur in between, and None after
\* consume_stop_event until the next set_stop_signal.
C26_StopUntilConsumed ==
    [][IsPeekStop(ret') => ret'.res = due.stop]_vars

\* C27: the stop and continue flags are independent.  set_stop_signal and
\* consume_stop_event leave the continue flag as it is, set_cont_signal and
\* consume_cont_event leave the stop flag as it is, and
\* peek_pending_cont_event is true from set_cont_signal to the next
\* consume_cont_event and false from there to the next set_cont_signal.
C27_FlagsIndependent ==
    [][/\ ret'.op \in {"set_stop", "consume_stop"}
          => ContFlag(signal_events') = ContFlag(signal_events)
       /\ ret'.op \in {"set_cont", "consume_cont"}
          => StopFlag(signal_events') = StopFlag(signal_events)
       /\ IsPeekCont(ret') => ret'.res = <<due.cont>>]_vars

\* consume_stop_event has cleared the stop flag while a continue event was
\* due, and the continue flag is still set.
C27_Witness ==
    /\ ret.op = "consume_stop"
    /\ due.cont
    /\ ContFlag(signal_events)
    /\ ~StopFlag(signal_events)

\* ---------------------------------------------------------------- claims on the sigaction conversion

\* The flags of a SignalAction, as the specification lists them, and the bit
\* of each.
KnownFlags ==
    [SIGINFO |-> SA_SIGINFO,
     NODEFER |-> SA_NODEFER,
     RESETHAND |-> SA_RESETHAND,
     RESTART |-> SA_RESTART,
     ONSTACK |-> SA_ONSTACK,
     RESTORER |-> SA_RESTORER]

KnownBits == {KnownFlags[f] : f \in DOMAIN KnownFlags}

IsSigaction(c) == c.op = "sigaction"

\* C28: invalid sigaction input is rejected without effect.  A conversion
\* whose flags contain a bit outside the known flag set fails with EINVAL and
\* the action table is not modified; a conversion with only known flag bits
\* succeeds, with the flags that were given.
C28_UnknownFlagsRejected ==
    [][IsSigaction(ret') =>
          IF ret'.arg[2].flags \subseteq KnownBits
          THEN /\ ret'.res = <<"Ok">>
               /\ actions'[ret'.arg[1]].flags =
                      {f \in DOMAIN KnownFlags : KnownFlags[f] \in ret'.arg[2].flags}
          ELSE /\ ret'.res = <<"EINVAL">>
               /\ actions' = actions]_vars

\* ---------------------------------------------------------------- claims on the hints

\* C29: a possibly-has-signal hint is cleared only for an empty store.  When
\* an operation stores false to a thread's hint, that thread's pending set is
\* empty, and when it stores false to the process hint, the process pending
\* set is empty.
C29_ClearedOnlyWhenEmpty ==
    [][/\ \A t \in live' :
             (thr_possibly_has_signal[t] /\ ~thr_possibly_has_signal'[t])
                 => SignalSet_is_empty(thr_pending'[t].set)
       /\ (proc_possibly_has_signal /\ ~proc_possibly_has_signal')
             => SignalSet_is_empty(proc_pending'.set)]_vars

\* C30: every accepted send publishes the hint.  After a send_signal whose
\* signo is not discarded as ignored, whether or not the signo was already
\* pending, the hint of the manager it was sent to is true.
C30_SendPublishesHint ==
    [][/\ (IsThrSend(ret') /\ ~signal_ignored(actions, ret'.arg[1].signo))
             => thr_possibly_has_signal'[ret'.tid]
       /\ (IsProcSend(ret') /\ ~signal_ignored(actions, ret'.arg[1].signo))
             => proc_possibly_has_signal']_vars

\* C31: no lock is held across a user-memory write.  Whenever the last call
\* wrote a signal frame to user memory (handle_signal called directly or
\* from check_signals), the calling context held none of the manager locks
\* at that write.
C31_NoLockAtWrite == write_locks # None => write_locks[1] = {}

\* The entries of a registry whose thread manager still exists, in their order.
RECURSIVE Retained(_, _)
Retained(chs, alive) ==
    IF chs = <<>>
    THEN <<>>
    ELSE IF Head(chs) \in alive
         THEN <<Head(chs)>> \o Retained(Tail(chs), alive)
         ELSE Retained(Tail(chs), alive)

Consumed(t) ==
    (thr_pending[t].set \ thr_pending'[t].set) \cup (proc_pending.set \ proc_pending'.set)

\* C33: the delivery loop skips and consumes ignored signals.  In one
\* check_signals call every signo taken out of a store other than the
\* returned one was unblocked and had a disposition yielding no OS action;
\* when the call returns None through the slow path, neither the thread's
\* store nor the process store holds a signo outside the blocked mask.
C33_LoopConsumesIgnored ==
    [][IsCheck(ret') /\ SlowPath(ret'.tid) =>
         /\ \A s \in Consumed(ret'.tid) :
                \/ ret'.res # None /\ ret'.res[1][1].signo = s
                \/ IgnoredDisposition(actions, s) /\ s \notin thr_blocked[ret'.tid]
         /\ ret'.res = None =>
                \A s \in Signos \ thr_blocked[ret'.tid] :
                    /\ ~Holds(thr_pending'[ret'.tid], s)
                    /\ ~Holds(proc_pending', s)]_vars

\* The signos of a set that are both pending in the store and in the mask.
Eligible(set, mask) == {s \in set : s \in ps.set /\ s \in mask}

\* C34 (as stated): synchronous fatal signals preempt asynchronous ones.
\* Whenever a synchronous fatal signo and an asynchronous signo are both
\* pending in the store and both in the mask, dequeue_signal returns a
\* synchronous fatal signo, never an asynchronous one.
C34_SyncFatalFirst ==
    [][IsDequeue(ret') /\ Eligible(SyncFatal, ret'.arg[1]) # {}
                       /\ Eligible(Async, ret'.arg[1]) # {} =>
         /\ ret'.res # None
         /\ ret'.res[1].signo \in SyncFatal]_vars

\* C34 (amended): dequeue_signal orders by signo alone.  Whenever a
\* synchronous fatal signo and an asynchronous signo are both pending in the
\* store and both in the mask, dequeue_signal returns the smallest of them:
\* SIGILL or SIGSEGV before SIGTERM, and SIGINT before SIGILL and SIGSEGV.
C34_SmallestSignoFirst ==
    [][IsDequeue(ret') /\ Eligible(SyncFatal, ret'.arg[1]) # {}
                       /\ Eligible(Async, ret'.arg[1]) # {} =>
         /\ ret'.res # None
         /\ ret'.res[1].signo = SetMin(Eligible(SyncFatal \cup Async, ret'.arg[1]))
         /\ SIGINT \in Eligible(Async, ret'.arg[1]) => ret'.res[1].signo = SIGINT
         /\ SIGINT \notin Eligible(Async, ret'.arg[1]) => ret'.res[1].signo \in SyncFatal]_vars

\* C34 witness: dequeue_signal with the full mask has returned SIGINT while
\* SIGSEGV is still pending in the store.
C34_Witness ==
    /\ IsDequeue(ret)
    /\ ret.arg[1] = SignalSet_not(EmptySet)
    /\ ret.res = Some(SignalInfo(SIGINT, 1))
    /\ SIGSEGV \in ps.set

\* C35 (as stated): check_signals delivers the highest-priority unblocked
\* signal.  The signo check_signals returns is the smallest of the signos
\* pending() reports, the union of the thread's and the process store's
\* sets, that are not blocked and have a disposition other than ignore.
C35_SmallestOfUnion ==
    [][IsCheck(ret') /\ ret'.res # None =>
         ret'.res[1][1].signo =
             SetMin(Stops(ret'.tid, pending(thr_pending[ret'.tid], proc_pending)))]_vars

\* C35 (amended): check_signals delivers the thread-directed signals first.
\* The signo check_signals returns is the smallest unblocked signo with a
\* disposition other than ignore of the thread's own store when there is
\* one, and the smallest such signo of the process store otherwise.
C35_SmallestThreadFirst ==
    [][IsCheck(ret') /\ ret'.res # None =>
         ret'.res[1][1].signo =
             IF Stops(ret'.tid, thr_pending[ret'.tid].set) # {}
             THEN SetMin(Stops(ret'.tid, thr_pending[ret'.tid].set))
             ELSE SetMin(Stops(ret'.tid, proc_pending.set))]_vars

\* C35 witness: check_signals has returned the thread-directed SIGCONT while
\* the smaller SIGINT is pending in the process store, unblocked and not
\* ignored.
C35_Witness ==
    /\ IsCheck(ret)
    /\ ret.res # None
    /\ ret.res[1][1].signo = SIGCONT
    /\ SIGINT \in proc_pending.set
    /\ SIGINT \notin thr_blocked[7]
    /\ ~IgnoredDisposition(actions, SIGINT)

IsFlush(c) == c.op = "flush_stop"

\* C36: flush_stop_signals removes exactly the stop signals.  After the call
\* the process store holds none of SIGSTOP, SIGTSTP, SIGTTIN and SIGTTOU,
\* every other signo of the process store keeps its bit, its info and its
\* queue, and the thread stores, the blocked masks and the action table are
\* as they were.
C36_FlushRemovesStops ==
    [][IsFlush(ret') =>
         /\ \A s \in {SIGSTOP, SIGTSTP, SIGTTIN, SIGTTOU} :
                s \notin proc_pending'.set /\ proc_pending'.infos[s] = None
         /\ \A s \in (1..31) \ {SIGSTOP, SIGTSTP, SIGTTIN, SIGTTOU} :
                /\ s \in proc_pending'.set <=> s \in proc_pending.set
                /\ proc_pending'.infos[s] = proc_pending.infos[s]
         /\ proc_pending'.infos[0] = proc_pending.infos[0]
         /\ proc_pending'.set \ (1..31) = proc_pending.set \ (1..31)
         /\ proc_pending'.info_queues = proc_pending.info_queues
         /\ thr_pending' = thr_pending
         /\ thr_blocked' = thr_blocked
         /\ actions' = actions]_vars

\* C36 witness: after a flush the process store holds SIGINT and a queued
\* SIGRTMIN and no stop signal, while thread 7 still holds the SIGSTOP sent
\* to it and still blocks SIGSTOP.
C36_Witness ==
    /\ IsFlush(ret)
    /\ proc_pending.set = {SIGINT}
    /\ proc_pending.infos[SIGINT] = Some(SignalInfo(SIGINT, UserCode))
    /\ Queue(proc_pending, SIGRTMIN) # <<>>
    /\ SIGSTOP \in thr_pending[7].set
    /\ SIGSTOP \in thr_blocked[7]

ShrinksBlocked(c) == c.op \in {"restore", "block", "unblock"}

\* C37: every path that can shrink the blocked mask publishes the hint.
\* After restore and after with_blocked_mut the thread's hint is true; a
\* check_signals that follows at once takes the slow path and returns a
\* signal when a signo that pending() reports is unblocked and not ignored.
C37_ShrinkPublishesHint ==
    [][/\ ShrinksBlocked(ret') => thr_possibly_has_signal'[ret'.tid]
       /\ (ShrinksBlocked(ret) /\ IsCheck(ret') /\ ret'.tid = ret.tid
           /\ Stops(ret.tid, pending(thr_pending[ret.tid], proc_pending)) # {})
              => ret'.res # None]_vars

\* C37 witness: restore has brought back a blocked mask without SIGINT while
\* SIGINT, sent during the handler, is pending for the thread, and the hint
\* is true.
C37_Witness ==
    /\ IsRestore(ret)
    /\ SIGINT \in thr_pending[7].set
    /\ SIGINT \notin thr_blocked[7]
    /\ thr_possibly_has_signal[7]
    /\ handling = <<>>

\* C38: the stop flag and the recorded stop signal never disagree under
\* concurrency.  Under any interleaving of set_stop_signal,
\* consume_stop_event and peek_pending_stop_event in different contexts, a
\* peek that has loaded the flags with PENDING_STOP_EVENT set returns the
\* Some(s) of a set_stop_signal, and once every call has returned the flag
\* is set exactly when the recorded signal is Some.
C38_FlagAgreesWithCell ==
    [][/\ (ret'.op = "peek_stop" /\ job_pc["peeker"].at = "cell"
           /\ StopFlag(job_pc["peeker"].flags)) => ret'.res # None
       /\ (\A c \in Contexts : job_pc'[c].at = "idle") =>
              (StopFlag(signal_events') <=> last_stop_signal' # None)]_vars

\* How many instances equal to info a store holds.
Count(p, info) ==
    IF IsStd(info.signo)
    THEN IF p.infos[info.signo] = Some(info) THEN 1 ELSE 0
    ELSE Cardinality({k \in 1..Len(Queue(p, info.signo)) :
                          Queue(p, info.signo)[k] = info})

DeliverInfos == {SignalInfo(s, c) : s \in Signos, c \in Codes}

\* What a dequeue_signal or check_signals call returned, if anything.
Returned(c) ==
    IF c.res = None
    THEN None
    ELSE IF IsCheck(c) THEN Some(c.res[1][1]) ELSE Some(c.res[1])

\* C39: no fabricated and no duplicated delivery.  A store gains an instance
\* only by a send_signal to that store, and only the sent one; a
\* dequeue_signal or check_signals of a thread that returns an info takes
\* exactly one instance of it out of the thread's own store or the process
\* store, where it was held, and leaves the stores of the other threads as
\* they were; no other call adds an instance.  So every returned info was
\* stored by an earlier send, no instance is returned twice, and a
\* process-directed signal goes to one thread only.
C39_NoFabricationNoDuplicate ==
    [][\A i \in DeliverInfos :
         /\ Count(proc_pending', i) > Count(proc_pending, i) =>
                /\ IsProcSend(ret') /\ ret'.arg[1] = i
                /\ Count(proc_pending', i) = Count(proc_pending, i) + 1
         /\ \A t \in Tids :
                Count(thr_pending'[t], i) > Count(thr_pending[t], i) =>
                    /\ IsThrSend(ret') /\ ret'.tid = t /\ ret'.arg[1] = i
                    /\ Count(thr_pending'[t], i) = Count(thr_pending[t], i) + 1
         /\ ((IsCheck(ret') \/ IsThrDequeue(ret')) /\ Returned(ret') = Some(i)) =>
                /\ Count(thr_pending[ret'.tid], i) + Count(proc_pending, i) >= 1
                /\ Count(thr_pending'[ret'.tid], i) + Count(proc_pending', i)
                       = Count(thr_pending[ret'.tid], i) + Count(proc_pending, i) - 1
                /\ \A t \in Tids \ {ret'.tid} : thr_pending'[t] = thr_pending[t]]_vars

\* C39 witness: thread 9 has been handed the process-directed SIGTERM with
\* payload 2, which the process store no longer holds, while thread 7 holds
\* the SIGTERM with payload 1 that was sent to it.
C39_Witness ==
    /\ IsThrDequeue(ret)
    /\ ret.tid = 9
    /\ ret.res = Some(SignalInfo(SIGTERM, 2))
    /\ proc_pending.infos[SIGTERM] = None
    /\ thr_pending[7].infos[SIGTERM] = Some(SignalInfo(SIGTERM, 1))
    /\ thr_pending[9].infos[SIGTERM] = None

\* A direct handle_signal call whose frame write faulted.
IsFaultedHandle(c) == IsHandle(c) /\ Len(c.arg) = 3

\* C40: a failed frame write changes nothing.  When the write of the signal
\* frame faults, handle_signal returns CoreDump and the trap frame, the
\* thread's blocked mask and the process action table, also under
\* RESETHAND, are as they were before the call.
C40_FaultChangesNothing ==
    [][IsFaultedHandle(ret') =>
         /\ ret'.res = Some("CoreDump")
         /\ tf' = tf
         /\ thr_blocked' = thr_blocked
         /\ actions' = actions]_vars

\* C40 witness: the frame write of a SIGINT handler with RESETHAND has
\* faulted after an earlier handler entry; the table still holds the
\* handler, and the trap frame is still the one in the handler.
C40_Witness ==
    /\ IsFaultedHandle(ret)
    /\ ret.arg[1].signo = SIGINT
    /\ "RESETHAND" \in ret.arg[2].flags
    /\ ret.res = Some("CoreDump")
    /\ actions[SIGINT] = HandlerResetHand
    /\ tf.ip = HandlerIp
    /\ SIGTERM \notin thr_blocked[7]

====
